---- MODULE Spec2Model ----
(***************************************************************************)
(* The fixed-pool, first-fit allocator of custom_memory_allocator.c.       *)
(*                                                                         *)
(* The pool is modelled as the source lays it out: an array of cells of    *)
(* ALIGNMENT bytes each, with every block header stored in band, one       *)
(* field per cell (size, is_free, next_free).  Pointers are byte           *)
(* addresses; NULL is address 0.  Cells that no header was written to hold *)
(* 0: memory_pool is a static array, and the callers modelled here never   *)
(* write to their user regions.                                            *)
(*                                                                         *)
(* The source defines POOL_size and uses POOL_SIZE; the model reads the    *)
(* two as the same constant, scaled down from 1 MB to PoolUnits cells.     *)
(* size_t is scaled from 64 bits to SIZE_BITS bits.                        *)
(***************************************************************************)
EXTENDS Integers, Sequences, FiniteSets, TLC

\* ------------------------------------------------------------- bounds
PoolUnits == 16
SIZE_BITS == 12

\* ---------------------------------------------------------- constants
ALIGNMENT == 8
NULL == 0
pool_start == 64

SIZE_MOD == 2 ^ SIZE_BITS
POOL_SIZE == PoolUnits * ALIGNMENT
pool_end == pool_start + POOL_SIZE

\* struct BlockHeader { size_t size; int is_free; BlockHeader *next_free; }
offsetof_size == 0
offsetof_is_free == ALIGNMENT
offsetof_next_free == 2 * ALIGNMENT
sizeof_BlockHeader == 3 * ALIGNMENT

VARIABLES
    memory_pool,            \* cell index -> value
    free_list_head,         \* address or NULL
    allocator_initialized,  \* 0 or 1
    fault,                  \* "none", or how the last call left defined behaviour
    issued,                 \* history: every handle my_malloc has returned
    live,                   \* history: handles returned and not yet freed
    last                    \* history: the last call, its argument and outcome,
                            \* the free-list entries my_malloc passed over, and
                            \* the handle freed right before a my_malloc

\* custom_memory_allocator.c called from two threads with no lock
VARIABLES
    callers,                \* caller -> the statement it stands at (pc, named by
                            \* source line), the locals of its call, the handles
                            \* it holds and the calls it has made
    overlapped              \* history: a call began while another was under way

\* custom_memory_allocator.c built with the constants of a worked example
VARIABLES
    example,                \* hdr: block address -> BlockHeader; head: the
                            \* free_list_head; init: allocator_initialized
    ex_trace                \* history: the calls made, oldest first, each with
                            \* its argument and outcome

\* holo_communication_server_link.c
VARIABLES
    buffer,                 \* the bytes in the message buffer, first to last
    received,               \* history: the bytes as they were received
    ciphered,               \* history: the len of every xor_cipher call since
    ack_message,            \* the bytes in the acknowledgment array of main
    ack_text,               \* history: the bytes sprintf wrote at line 218,
                            \* the terminator included
    holo_link                    \* "open", "closed" (main left its loop) or
                            \* "crashed" (stopped after writing past an array)

\* kyber_crystal_management.c
VARIABLES
    crystal_array,          \* crystal id -> its KyberCrystal fields
    array_initialized       \* history: initialize_crystal_array has run

\* process_scheduler_simulation.c
VARIABLES
    all_processes,          \* the PCBs created so far; num_processes is their number
    global_time,            \* simulation time, an int
    ready_q,                \* the ReadyQueue of main: buffer, front, rear, count
    processes_terminated,   \* local of run_scheduler
    sched_pc,               \* "main", "loop" (inside run_scheduler), "done", or
                            \* "aborted" (stopped at a signed overflow)
    slice                   \* history: the last pass of the scheduler loop: the PCB
                            \* dispatched, its remaining_time before, the ticks it
                            \* ran, the time it started, the queue behind it and
                            \* the PCBs still NEW at that moment

allocator_vars ==
    <<memory_pool, free_list_head, allocator_initialized, fault, issued, live, last>>
holo_vars == <<buffer, received, ciphered, ack_message, ack_text, holo_link>>
kyber_vars == <<crystal_array, array_initialized>>
sched_vars ==
    <<all_processes, global_time, ready_q, processes_terminated, sched_pc, slice>>
race_vars == <<callers, overlapped>>
example_vars == <<example, ex_trace>>
not_allocator == <<race_vars, example_vars, holo_vars, kyber_vars, sched_vars>>
vars == <<allocator_vars, race_vars, example_vars, holo_vars, kyber_vars, sched_vars>>
alloc_state == <<memory_pool, free_list_head, allocator_initialized>>

Cells == 0 .. (PoolUnits - 1)

\* Bound: the number of crystals in the array (8 in the source).
NumCrystals == 2
NUM_CRYSTALS == NumCrystals

\* Static storage: every field of every crystal is zero, which reads as
\* CRYSTAL_OFFLINE, FAULT_NONE and ALIGN_NONE.
KyberStart ==
    /\ crystal_array = [i \in 1 .. NUM_CRYSTALS |->
                           [status |-> 0, fault_codes |-> 0, current_energy_level |-> 0,
                            alignment |-> 0, alignment_progress |-> 0]]
    /\ array_initialized = FALSE

\* Bounds: the number of PCBs in all_processes (10 in the source) and the
\* width of int (32 in the source).
MaxProcs == 3
INT_BITS == 5
MAX_PROCESSES == MaxProcs
\* Mutant: the queue has one slot less than there are PCBs.
MAX_QUEUE_SIZE_OneShort == MAX_PROCESSES - 1
MAX_QUEUE_SIZE == MAX_PROCESSES
INT_MAX == 2 ^ (INT_BITS - 1) - 1

\* main before its first create_process: init_queue has run (lines 70-74),
\* num_processes and global_time are 0.
SchedStart ==
    /\ all_processes = <<>>
    /\ global_time = 0
    /\ ready_q = [buffer |-> [k \in 0 .. (MAX_QUEUE_SIZE - 1) |-> 0],
                  front |-> 0, rear |-> -1, count |-> 0]
    /\ processes_terminated = 0
    /\ sched_pc = "main"
    /\ slice = [kind |-> "none", pid |-> 0, before |-> 0, ran |-> 0, start |-> 0,
                waiting |-> <<>>, fresh |-> {}, dropped |-> FALSE, log |-> <<>>]

\* The message buffer before anything was received.
\* Two threads, neither inside a call.
Callers == {1, 2}
IdleCaller ==
    [pc |-> "idle", total_needed_size |-> 0, current |-> NULL, prev_free |-> NULL,
     new_free_block |-> NULL, block_to_free |-> NULL, ret |-> NULL, held |-> {},
     calls |-> 0]
RaceStart ==
    /\ callers = [c \in Callers |-> IdleCaller]
    /\ overlapped = FALSE

\* The constants of the example build: a pool of 64 units, a header of 4
\* and an alignment of 4.  A header is one aligned unit of the pool, so the
\* pool is a map from unit addresses to headers.
Example == [POOL_SIZE |-> 64, header |-> 4, alignment |-> 4]
ExampleAddrs ==
    {pool_start + i * Example.alignment :
         i \in 0 .. (Example.POOL_SIZE \div Example.alignment - 1)}
NoHeader == [size |-> 0, is_free |-> 0, next_free |-> NULL]
ExampleStart ==
    /\ example = [hdr |-> [a \in ExampleAddrs |-> NoHeader], head |-> NULL, init |-> 0]
    /\ ex_trace = <<>>

HoloStart ==
    /\ buffer = <<>>
    /\ received = <<>>
    /\ ciphered = <<>>
    /\ ack_message = <<>>
    /\ ack_text = <<>>
    /\ holo_link = "open"

\* ------------------------------------------------------ memory access
\* An address the code may dereference as one field of the pool.
InArray(addr) ==
    /\ addr >= pool_start
    /\ addr < pool_end
    /\ (addr - pool_start) % ALIGNMENT = 0

CellOf(addr) == (addr - pool_start) \div ALIGNMENT

Rd(m, addr) == m[CellOf(addr)]
Wr(m, addr, v) == [m EXCEPT ![CellOf(addr)] = v]

\* All three fields of a header at b lie inside the array.
HeaderInArray(b) ==
    /\ InArray(b + offsetof_size)
    /\ InArray(b + offsetof_is_free)
    /\ InArray(b + offsetof_next_free)

size_of(m, b) == Rd(m, b + offsetof_size)
is_free_of(m, b) == Rd(m, b + offsetof_is_free)
next_free_of(m, b) == Rd(m, b + offsetof_next_free)

\* ------------------------------------------------------------- ALIGN
\* (((size) + (ALIGNMENT - 1)) & ~(ALIGNMENT - 1)) in size_t arithmetic.
\* Mutant: the rounding is missing.
ALIGN_Identity(size) == size % SIZE_MOD
ALIGN(size) ==
    LET x == (size + (ALIGNMENT - 1)) % SIZE_MOD
    IN  x - (x % ALIGNMENT)

\* ------------------------------------------------- my_allocator_init
State(m, h, i) == [mem |-> m, head |-> h, init |-> i]

\* Mutant: the already-initialized test is missing.
my_allocator_init_Reset(s) ==
    LET m1 == Wr(s.mem, pool_start + offsetof_size, POOL_SIZE)
        m2 == Wr(m1, pool_start + offsetof_is_free, 1)
        m3 == Wr(m2, pool_start + offsetof_next_free, NULL)
    IN  State(m3, pool_start, 1)
my_allocator_init_fn(s) ==
    IF s.init # 0
    THEN s
    ELSE LET m1 == Wr(s.mem, pool_start + offsetof_size, POOL_SIZE)
             m2 == Wr(m1, pool_start + offsetof_is_free, 1)
             m3 == Wr(m2, pool_start + offsetof_next_free, NULL)
         IN  State(m3, pool_start, 1)

\* ---------------------------------------------------------- my_malloc
\* Lines 83-85.  Mutant: my_malloc does not initialize.
EnsureInitializedSkipped(s0) == s0
EnsureInitialized(s0) == IF s0.init = 0 THEN my_allocator_init_fn(s0) ELSE s0

\* Line 87.  Mutant: the zero-size test is missing.
IsZeroRequestOff(size) == FALSE
IsZeroRequest(size) == size = 0

\* Lines 92-95.  Mutant: the minimum block size is not enforced.
total_needed_size_NoClamp(size) == ALIGN((size + sizeof_BlockHeader) % SIZE_MOD)
total_needed_size(size) ==
    LET t == ALIGN((size + sizeof_BlockHeader) % SIZE_MOD)
    IN  IF t < sizeof_BlockHeader + ALIGNMENT
        THEN sizeof_BlockHeader + ALIGNMENT
        ELSE t

\* Line 103.  Mutants: the size test dropped; > for >=.
FitsIgnoringSize(m, current, needed) == is_free_of(m, current) # 0
FitsStrict(m, current, needed) ==
    is_free_of(m, current) # 0 /\ size_of(m, current) > needed
Fits(m, current, needed) ==
    is_free_of(m, current) # 0 /\ size_of(m, current) >= needed

\* Line 106.  Mutants: > for >=; the header left out of the remainder.
CanSplitStrict(m, current, needed) ==
    size_of(m, current) > (needed + sizeof_BlockHeader + ALIGNMENT) % SIZE_MOD
CanSplitNoHeader(m, current, needed) ==
    size_of(m, current) >= (needed + ALIGNMENT) % SIZE_MOD
CanSplit(m, current, needed) ==
    size_of(m, current) >= (needed + sizeof_BlockHeader + ALIGNMENT) % SIZE_MOD

\* Line 108.  Mutant: the tail starts one alignment unit early.
new_free_block_Overlapping(current, needed) == current + needed - ALIGNMENT
new_free_block_of(current, needed) == current + needed

\* Line 109.  Mutant: the tail is one alignment unit short.
RemainderSizeShort(m, current, needed) ==
    (size_of(m, current) - needed - ALIGNMENT) % SIZE_MOD
RemainderSize(m, current, needed) ==
    (size_of(m, current) - needed) % SIZE_MOD

\* current->is_free = 0 (lines 114 and 128).  Mutant: the flag is left set.
MarkAllocatedForgotten(m, current) == m
MarkAllocated(m, current) == Wr(m, current + offsetof_is_free, 0)

Fuel == 2 * PoolUnits

\* The while loop of my_malloc: walks the free list from current and stops
\* at the first entry that fits.  A pointer the loop cannot dereference is
\* undefined behaviour; a list that never ends never returns.
RECURSIVE FirstFit(_, _, _, _, _)
FirstFit(m, current, prev_free, needed, fuel) ==
    IF current = NULL
    THEN [found |-> FALSE, current |-> NULL, prev_free |-> prev_free,
          skipped |-> Fuel - fuel, fault |-> "none"]
    ELSE IF ~HeaderInArray(current)
    THEN [found |-> FALSE, current |-> current, prev_free |-> prev_free,
          skipped |-> Fuel - fuel, fault |-> "ub"]
    ELSE IF fuel = 0
    THEN [found |-> FALSE, current |-> current, prev_free |-> prev_free,
          skipped |-> Fuel - fuel, fault |-> "hang"]
    ELSE IF Fits(m, current, needed)
    THEN [found |-> TRUE, current |-> current, prev_free |-> prev_free,
          skipped |-> Fuel - fuel, fault |-> "none"]
    ELSE FirstFit(m, next_free_of(m, current), current, needed, fuel - 1)

Outcome(s, ret, path, flt) ==
    [s |-> s, ret |-> ret, path |-> path, fault |-> flt, skipped |-> 0]

\* Line 111: new_free_block->next_free = current->next_free.  Mutant: the
\* tail's link is cleared instead.
InheritedLinkCleared(m, current) == NULL
InheritedLink(m, current) == next_free_of(m, current)

\* Lines 106-122: split current into an allocated head and a free tail.
SplitBlock(s, current, prev_free, needed) ==
    LET new_free_block == new_free_block_of(current, needed)
    IN  IF ~HeaderInArray(new_free_block)
        THEN Outcome(s, NULL, "split", "ub")
        ELSE
        LET m1 == Wr(s.mem, new_free_block + offsetof_size, RemainderSize(s.mem, current, needed))
            m2 == Wr(m1, new_free_block + offsetof_is_free, 1)
            m3 == Wr(m2, new_free_block + offsetof_next_free, InheritedLink(m2, current))
            m4 == Wr(m3, current + offsetof_size, needed)
            m5 == MarkAllocated(m4, current)
            m6 == Wr(m5, current + offsetof_next_free, NULL)
        IN  IF prev_free # NULL
            THEN Outcome(State(Wr(m6, prev_free + offsetof_next_free, new_free_block),
                               s.head, s.init),
                         current + sizeof_BlockHeader, "split", "none")
            ELSE Outcome(State(m6, new_free_block, s.init),
                         current + sizeof_BlockHeader, "split", "none")

\* Lines 126-139: hand out the whole block and unlink it.
ConsumeBlock(s, current, prev_free) ==
    LET m1 == MarkAllocated(s.mem, current)
    IN  IF prev_free # NULL
        THEN LET m2 == Wr(m1, prev_free + offsetof_next_free, next_free_of(m1, current))
                 m3 == Wr(m2, current + offsetof_next_free, NULL)
             IN  Outcome(State(m3, s.head, s.init),
                         current + sizeof_BlockHeader, "whole", "none")
        ELSE LET h  == next_free_of(m1, current)
                 m3 == Wr(m1, current + offsetof_next_free, NULL)
             IN  Outcome(State(m3, h, s.init),
                         current + sizeof_BlockHeader, "whole", "none")

my_malloc_fn(s0, size) ==
    LET s == EnsureInitialized(s0)
    IN  IF IsZeroRequest(size)
        THEN Outcome(s, NULL, "zero", "none")
        ELSE
        LET needed == total_needed_size(size)
            f == FirstFit(s.mem, s.head, NULL, needed, Fuel)
            r == IF f.fault # "none" THEN Outcome(s, NULL, "search", f.fault)
                 ELSE IF ~f.found THEN Outcome(s, NULL, "oom", "none")
                 ELSE IF CanSplit(s.mem, f.current, needed)
                 THEN SplitBlock(s, f.current, f.prev_free, needed)
                 ELSE ConsumeBlock(s, f.current, f.prev_free)
        IN  [r EXCEPT !.skipped = f.skipped]

\* ------------------------------------------------------------ my_free
\* Line 167.  Mutant: the header size is not subtracted.
block_to_free_Unadjusted(ptr) == ptr
block_to_free_of(ptr) == ptr - sizeof_BlockHeader

\* Lines 170-171.  Mutant: only the upper bound is tested.
OutsidePoolUpperOnly(block) == block >= pool_start + POOL_SIZE
OutsidePool(block) == block < pool_start \/ block >= pool_start + POOL_SIZE

\* Line 178.  Mutant: the double-free guard is missing.
AlreadyFreeUnchecked(m, block) == FALSE
AlreadyFree(m, block) == is_free_of(m, block) # 0

\* Line 188: block_to_free->next_free = free_list_head.  Mutant: the link is
\* cleared instead.
PushLinkCleared(s) == NULL
PushLink(s) == s.head

\* Mutant: my_free without the tests of lines 157-174.
my_free_Unguarded(s, ptr) ==
    LET block_to_free == block_to_free_of(ptr)
    IN  IF ~HeaderInArray(block_to_free)
        THEN Outcome(s, NULL, "read", "ub")
        ELSE IF AlreadyFree(s.mem, block_to_free)
        THEN Outcome(s, NULL, "already_free", "none")
        ELSE Outcome(State(Wr(Wr(s.mem, block_to_free + offsetof_is_free, 1),
                              block_to_free + offsetof_next_free, PushLink(s)),
                           block_to_free, s.init),
                     NULL, "pushed", "none")
my_free_fn(s, ptr) ==
    IF ptr = NULL THEN Outcome(s, NULL, "null", "none")
    ELSE IF s.init = 0 THEN Outcome(s, NULL, "uninit", "none")
    ELSE
    LET block_to_free == block_to_free_of(ptr)
    IN  IF OutsidePool(block_to_free) THEN Outcome(s, NULL, "oob", "none")
        ELSE IF ~InArray(block_to_free + offsetof_is_free)
        THEN Outcome(s, NULL, "read", "ub")
        ELSE IF AlreadyFree(s.mem, block_to_free)
        THEN Outcome(s, NULL, "already_free", "none")
        ELSE
        LET m1 == Wr(s.mem, block_to_free + offsetof_is_free, 1)
        IN  IF ~InArray(block_to_free + offsetof_next_free)
            THEN Outcome(State(m1, s.head, s.init), NULL, "pushed", "ub")
            ELSE Outcome(State(Wr(m1, block_to_free + offsetof_next_free, PushLink(s)),
                               block_to_free, s.init),
                         NULL, "pushed", "none")

\* ---------------------------------------------------- dump_memory_map
\* The pool walk of lines 211-236: the block addresses met, in order, the
\* bytes mapped, and whether a zero-size block stopped the walk.
RECURSIVE PoolWalk(_, _, _, _)
PoolWalk(m, current_block, total_bytes_mapped, blocks) ==
    IF ~(current_block < pool_end /\ total_bytes_mapped < POOL_SIZE)
    THEN [blocks |-> blocks, total |-> total_bytes_mapped, zero |-> FALSE,
          stop |-> current_block]
    ELSE IF ~InArray(current_block)
    THEN [blocks |-> blocks, total |-> total_bytes_mapped, zero |-> FALSE,
          stop |-> current_block]
    ELSE IF size_of(m, current_block) = 0
    THEN [blocks |-> Append(blocks, current_block), total |-> total_bytes_mapped,
          zero |-> TRUE, stop |-> current_block]
    ELSE IF total_bytes_mapped + size_of(m, current_block) > POOL_SIZE
    THEN [blocks |-> Append(blocks, current_block),
          total |-> total_bytes_mapped + size_of(m, current_block), zero |-> FALSE,
          stop |-> current_block + size_of(m, current_block)]
    ELSE PoolWalk(m, current_block + size_of(m, current_block),
                  total_bytes_mapped + size_of(m, current_block),
                  Append(blocks, current_block))

\* The free-list walk of lines 241-262: the entries met, in link order, and
\* how the walk ended.
RECURSIVE FreeListWalk(_, _, _, _)
FreeListWalk(m, free_block, entries, fuel) ==
    IF free_block = NULL THEN [entries |-> entries, end |-> "null"]
    ELSE IF ~HeaderInArray(free_block)
    THEN [entries |-> Append(entries, free_block), end |-> "outside"]
    ELSE IF is_free_of(m, free_block) = 0
    THEN [entries |-> Append(entries, free_block), end |-> "allocated"]
    ELSE IF fuel = 0
    THEN [entries |-> Append(entries, free_block), end |-> "too_long"]
    ELSE FreeListWalk(m, next_free_of(m, free_block), Append(entries, free_block), fuel - 1)

\* The entry count past which the free-list walk gives up (line 257).
FreeListLimit == POOL_SIZE \div (sizeof_BlockHeader + ALIGNMENT) + 5

\* The chain my_malloc follows (lines 98, 143-144): every address met from p
\* by next_free, whatever its flag, and whether the chain ended in NULL.
RECURSIVE Chain(_, _, _, _)
Chain(m, p, entries, fuel) ==
    IF p = NULL THEN [entries |-> entries, ended |-> TRUE]
    ELSE IF ~HeaderInArray(p) \/ fuel = 0
    THEN [entries |-> Append(entries, p), ended |-> FALSE]
    ELSE Chain(m, next_free_of(m, p), Append(entries, p), fuel - 1)

\* Mutant: the pool is laid out again on every dump.
dump_memory_map_Reinit(s0) == my_allocator_init_Reset(s0)
dump_memory_map_fn(s0) ==
    IF s0.init = 0 THEN my_allocator_init_fn(s0) ELSE s0

\* ------------------------------------------------------------ callers
\* Request sizes: zero, small ones, the exact pool, and sizes at which
\* size + sizeof(BlockHeader) or ALIGN wraps around.
MallocSizes ==
    {0, 1, ALIGNMENT + 1, 2 * ALIGNMENT + 1, 5 * ALIGNMENT,
     POOL_SIZE - sizeof_BlockHeader, POOL_SIZE,
     SIZE_MOD - sizeof_BlockHeader, SIZE_MOD - 1}

\* Pointers whose derived block address lies outside the pool.
RejectedPtrs ==
    {pool_start - ALIGNMENT + sizeof_BlockHeader, pool_start,
     pool_end + sizeof_BlockHeader}

\* Pointers a caller that keeps to the interface may pass to my_free.
ContractPtrs == {NULL} \cup issued \cup RejectedPtrs

\* Pointers that were never handed out but whose derived block address
\* passes the bounds check.
ForeignPtrs == {pool_end, pool_end + ALIGNMENT}

\* The requests made next to foreign pointers: a subset of MallocSizes.
ForeignMallocSizes == {0, 2 * ALIGNMENT + 1, 5 * ALIGNMENT}

Cur == State(memory_pool, free_list_head, allocator_initialized)

Commit(s) ==
    /\ memory_pool' = s.mem
    /\ free_list_head' = s.head
    /\ allocator_initialized' = s.init

Init ==
    /\ memory_pool = [c \in Cells |-> 0]
    /\ free_list_head = NULL
    /\ allocator_initialized = 0
    /\ fault = "none"
    /\ issued = {}
    /\ live = {}
    /\ last = [op |-> "start", arg |-> 0, ret |-> NULL, path |-> "start", skipped |-> 0,
               was_uninit |-> 0, after_push |-> NULL]
    /\ RaceStart
    /\ ExampleStart
    /\ HoloStart
    /\ KyberStart
    /\ SchedStart

my_allocator_init ==
    /\ fault = "none"
    /\ Commit(my_allocator_init_fn(Cur))
    /\ last' = [op |-> "init", arg |-> 0, ret |-> NULL,
                path |-> IF allocator_initialized = 0 THEN "init" ELSE "noop",
                skipped |-> 0, was_uninit |-> 1 - allocator_initialized,
                after_push |-> NULL]
    /\ UNCHANGED <<fault, issued, live>>
    /\ UNCHANGED not_allocator

\* The handle the call before this one pushed on the free list, if that
\* call was a my_free that freed a block; NULL otherwise.
JustPushed == IF last.op = "free" /\ last.path = "pushed" THEN last.arg ELSE NULL

my_malloc(size) ==
    /\ fault = "none"
    /\ LET r == my_malloc_fn(Cur, size)
       IN  /\ Commit(r.s)
           /\ fault' = r.fault
           /\ issued' = IF r.ret # NULL THEN issued \cup {r.ret} ELSE issued
           /\ live' = IF r.ret # NULL THEN live \cup {r.ret} ELSE live
           /\ last' = [op |-> "malloc", arg |-> size, ret |-> r.ret, path |-> r.path,
                       skipped |-> r.skipped,
                       was_uninit |-> 1 - allocator_initialized,
                       after_push |-> JustPushed]
    /\ UNCHANGED not_allocator

my_free(ptr) ==
    /\ fault = "none"
    /\ LET r == my_free_fn(Cur, ptr)
       IN  /\ Commit(r.s)
           /\ fault' = r.fault
           /\ live' = IF r.path = "pushed" THEN live \ {ptr} ELSE live
           /\ last' = [op |-> "free", arg |-> ptr, ret |-> NULL, path |-> r.path,
                       skipped |-> 0, was_uninit |-> 1 - allocator_initialized,
                       after_push |-> NULL]
           /\ UNCHANGED issued
    /\ UNCHANGED not_allocator

dump_memory_map ==
    /\ fault = "none"
    /\ Commit(dump_memory_map_fn(Cur))
    /\ last' = [op |-> "dump", arg |-> 0, ret |-> NULL, path |-> "dump", skipped |-> 0,
                was_uninit |-> 1 - allocator_initialized, after_push |-> NULL]
    /\ UNCHANGED <<fault, issued, live>>
    /\ UNCHANGED not_allocator

Next ==
    \/ my_allocator_init
    \/ \E size \in MallocSizes : my_malloc(size)
    \/ \E ptr \in ContractPtrs : my_free(ptr)
    \/ dump_memory_map

Spec == Init /\ [][Next]_vars

NextForeign ==
    \/ my_allocator_init
    \/ \E size \in ForeignMallocSizes : my_malloc(size)
    \/ \E ptr \in ContractPtrs \cup ForeignPtrs : my_free(ptr)
    \/ dump_memory_map

SpecForeign == Init /\ [][NextForeign]_vars

\* ============================= holo_communication_server_link.c
\* Bounds: the longest message received and the number of xor_cipher calls
\* on one message.
MaxLen == 3
MaxCiphered == 2

CHAR_BIT == 8
XOR_KEY == 165
Bytes == 0 .. (2 ^ CHAR_BIT - 1)

\* a ^ b on the low n bits.
RECURSIVE BitXor(_, _, _)
BitXor(a, b, n) ==
    IF n = 0 THEN 0
    ELSE (((a % 2) + (b % 2)) % 2) + 2 * BitXor(a \div 2, b \div 2, n - 1)

\* Line 62: data[i] ^= XOR_KEY.  Mutant: the key is added instead.
xor_byte_Added(b) == (b + XOR_KEY) % (2 ^ CHAR_BIT)
xor_byte(b) == BitXor(b, XOR_KEY, CHAR_BIT)

\* Lines 60-64: the loop over data[0 .. len - 1]; data[i] of the source is
\* data[i + 1] here.
RECURSIVE xor_cipher_loop(_, _, _)
xor_cipher_loop(data, i, len) ==
    IF i < len
    THEN xor_cipher_loop([data EXCEPT ![i + 1] = xor_byte(data[i + 1])], i + 1, len)
    ELSE data
xor_cipher_fn(data, len) == xor_cipher_loop(data, 0, len)

\* Bytes a peer may send: zero, the key itself, all ones, and a letter.
ByteSamples == {0, XOR_KEY, 2 ^ CHAR_BIT - 1, 65}

RECURSIVE Messages(_)
Messages(n) ==
    IF n = 0 THEN {<<>>}
    ELSE Messages(n - 1)
         \cup {Append(m, b) : m \in {x \in Messages(n - 1) : Len(x) = n - 1},
                               b \in ByteSamples}

\* recv (line 176): a message of recv_len bytes arrives in buffer.
recv(message) ==
    /\ buffer' = message
    /\ received' = message
    /\ ciphered' = <<>>
    /\ UNCHANGED <<ack_message, ack_text, holo_link>>
    /\ UNCHANGED <<allocator_vars, race_vars, example_vars, kyber_vars, sched_vars>>

\* xor_cipher(buffer, len) as main calls it (lines 199, 211, 222), with len
\* no longer than the buffer.
xor_cipher(len) ==
    /\ Len(ciphered) < MaxCiphered
    /\ buffer' = xor_cipher_fn(buffer, len)
    /\ ciphered' = Append(ciphered, len)
    /\ UNCHANGED <<received, ack_message, ack_text, holo_link>>
    /\ UNCHANGED <<allocator_vars, race_vars, example_vars, kyber_vars, sched_vars>>

HoloNext ==
    \/ \E message \in Messages(MaxLen) : recv(message)
    \/ \E len \in 0 .. Len(buffer) : xor_cipher(len)

SpecHolo == Init /\ [][HoloNext]_vars

\* ------------------------------------- the communication loop of main
\* Bound: BUFFER_SIZE (1024 in the source).
BufferSize == 40
BUFFER_SIZE == BufferSize
ACK_MESSAGE_SIZE == 50

\* The format of line 218 before and after its %s, and the command of line
\* 208, as character codes.
ack_format_head == <<65, 67, 75, 58, 32, 82, 101, 99, 101, 105, 118, 101, 100, 32, 39>>
ack_format_tail == <<39>>
CMD_TERMINATE_LINK ==
    <<67, 77, 68, 95, 84, 69, 82, 77, 73, 78, 65, 84, 69, 95, 76, 73, 78, 75>>

\* The C string that starts at data[0]: the bytes before the first zero
\* byte.  (buffer[recv_len] is zero, lines 190 and 202, so the string of
\* the buffer is never longer than recv_len.)
c_string(data) ==
    LET zeros == {i \in 1 .. Len(data) : data[i] = 0}
    IN  IF zeros = {} THEN data
        ELSE SubSeq(data, 1, (CHOOSE i \in zeros : \A j \in zeros : i <= j) - 1)

\* Line 205 and 218: what sprintf writes for "ACK: Received '%s'", the
\* terminating zero byte included.
sprintf_ack(data) == ack_format_head \o c_string(data) \o ack_format_tail \o <<0>>

\* Line 219.
strlen(data) == Len(c_string(data))

\* The messages a peer sends: the letter A, encrypted, 1 to BUFFER_SIZE - 1
\* times; the same with the first or the last byte decrypting to a zero
\* byte; and the encrypted termination command.
LetterRun(n) == [i \in 1 .. n |-> xor_byte(65)]
PeerMessages ==
    {LetterRun(n) : n \in 1 .. (BUFFER_SIZE - 1)}
    \cup {[LetterRun(n) EXCEPT ![1] = XOR_KEY] : n \in 1 .. (BUFFER_SIZE - 1)}
    \cup {[LetterRun(n) EXCEPT ![n] = XOR_KEY] : n \in 1 .. (BUFFER_SIZE - 1)}
    \cup {xor_cipher_fn(CMD_TERMINATE_LINK, Len(CMD_TERMINATE_LINK))}

\* Lines 175-230, one pass of the loop in which recv returns recv_len > 0:
\* the message is decrypted in buffer; the termination command ends the
\* loop; any other message is acknowledged.  sprintf writes its text into
\* ack_message whatever the length of the text: writing past the 50 bytes
\* of the array has undefined behaviour, after which the program either is
\* stopped or goes on and sends what it wrote.  When send fails main leaves
\* the loop (lines 224-229).
main_loop_pass(message) ==
    /\ holo_link = "open"
    /\ received' = message
    /\ ciphered' = <<Len(message)>>
    /\ buffer' = xor_cipher_fn(message, Len(message))
    /\ IF c_string(buffer') = CMD_TERMINATE_LINK
       THEN /\ holo_link' = "closed"
            /\ UNCHANGED <<ack_message, ack_text>>
       ELSE /\ ack_text' = sprintf_ack(buffer')
            /\ ack_message' =
                   LET held == SubSeq(ack_text', 1,
                                      IF Len(ack_text') <= ACK_MESSAGE_SIZE
                                      THEN Len(ack_text') ELSE ACK_MESSAGE_SIZE)
                   IN  xor_cipher_fn(held, IF strlen(ack_text') <= Len(held)
                                           THEN strlen(ack_text') ELSE Len(held))
            /\ \/ holo_link' = "open"
               \/ holo_link' = "closed"
               \/ /\ Len(ack_text') > ACK_MESSAGE_SIZE
                  /\ holo_link' = "crashed"
    /\ UNCHANGED <<allocator_vars, race_vars, example_vars, kyber_vars, sched_vars>>

\* Lines 178-188: recv fails or the peer has disconnected, and main leaves
\* the loop.
main_loop_break ==
    /\ holo_link = "open"
    /\ holo_link' = "closed"
    /\ UNCHANGED <<buffer, received, ciphered, ack_message, ack_text>>
    /\ UNCHANGED <<allocator_vars, race_vars, example_vars, kyber_vars, sched_vars>>

AckNext ==
    \/ \E message \in PeerMessages : main_loop_pass(message)
    \/ main_loop_break

SpecAck == Init /\ [][AckNext]_vars

\* ================================== kyber_crystal_management.c
MAX_ENERGY_LEVEL == 1000
ENERGY_CHARGE_RATE == 50
ALIGNMENT_STEPS == 5

CRYSTAL_OFFLINE == 0
CRYSTAL_NOMINAL == 1
CRYSTAL_ENERGIZING == 2
CRYSTAL_ENERGIZED == 3
CRYSTAL_ALIGNING == 4
CRYSTAL_ALIGNED == 5
CRYSTAL_ACTIVE == 6
CRYSTAL_FAULTY == 7
CRYSTAL_DEPLETED == 8

ALIGN_NONE == 0
ALIGN_COARSE == 1
ALIGN_FINE == 2
ALIGN_LOCKED == 3

FAULT_NONE == 0
FAULT_POWER_FLUCTUATION == 1
FAULT_CRACK_DETECTED == 2
FAULT_OVERHEATING == 4
FAULT_ALIGNMENT_DRIFT == 8

\* faults & bit, faults |= bit and faults &= ~bit for a one-bit mask.
HasFault(faults, bit) == (faults \div bit) % 2 = 1
SetFault(faults, bit) == IF HasFault(faults, bit) THEN faults ELSE faults + bit
ClearFault(faults, bit) == IF HasFault(faults, bit) THEN faults - bit ELSE faults

\* The id test of lines 151, 199 and 254.
ValidId(crystal_id) == ~(crystal_id <= 0 \/ crystal_id > NUM_CRYSTALS)

\* Lines 123-141: what rand() may give one crystal.
InitialCrystals ==
    {[status |-> CRYSTAL_FAULTY, fault_codes |-> f, current_energy_level |-> 0,
      alignment |-> ALIGN_NONE, alignment_progress |-> 0] :
         f \in {FAULT_POWER_FLUCTUATION, FAULT_CRACK_DETECTED, FAULT_OVERHEATING,
                FAULT_ALIGNMENT_DRIFT}}
    \cup {[status |-> st, fault_codes |-> FAULT_NONE, current_energy_level |-> 0,
           alignment |-> ALIGN_NONE, alignment_progress |-> 0] :
              st \in {CRYSTAL_OFFLINE, CRYSTAL_NOMINAL}}

\* Lines 162-190 on one crystal; stabilized is the outcome of rand() % 2 == 0
\* at line 168.
diagnose_crystal_fn(crystal, stabilized) ==
    LET f1 == IF crystal.fault_codes # FAULT_NONE
                 /\ HasFault(crystal.fault_codes, FAULT_POWER_FLUCTUATION)
                 /\ stabilized
              THEN ClearFault(crystal.fault_codes, FAULT_POWER_FLUCTUATION)
              ELSE crystal.fault_codes
        c1 == [crystal EXCEPT !.fault_codes = f1]
    IN  IF crystal.fault_codes # FAULT_NONE /\ f1 # FAULT_NONE
        THEN [c |-> [c1 EXCEPT !.status = CRYSTAL_FAULTY], ret |-> FALSE]
        ELSE
        LET c2 == IF crystal.fault_codes # FAULT_NONE
                  THEN [c1 EXCEPT !.status = CRYSTAL_NOMINAL]
                  ELSE c1
            c3 == IF c2.status = CRYSTAL_OFFLINE
                  THEN [c2 EXCEPT !.status = CRYSTAL_NOMINAL]
                  ELSE c2
        IN  [c |-> c3, ret |-> c3.status # CRYSTAL_FAULTY]

\* Lines 222-241: the charging loop; fault_cycle is the cycle at which
\* rand() % 20 == 0 at line 235, 0 when it never is.
RECURSIVE energize_loop(_, _, _)
energize_loop(crystal, cycle, fault_cycle) ==
    IF crystal.current_energy_level < MAX_ENERGY_LEVEL
    THEN LET e  == crystal.current_energy_level + ENERGY_CHARGE_RATE
             c1 == [crystal EXCEPT !.current_energy_level =
                        IF e > MAX_ENERGY_LEVEL THEN MAX_ENERGY_LEVEL ELSE e]
         IN  IF cycle = fault_cycle
             THEN [c |-> [c1 EXCEPT !.status = CRYSTAL_FAULTY,
                                    !.fault_codes =
                                        SetFault(c1.fault_codes, FAULT_POWER_FLUCTUATION)],
                   ret |-> FALSE]
             ELSE energize_loop(c1, cycle + 1, fault_cycle)
    ELSE [c |-> [crystal EXCEPT !.status = CRYSTAL_ENERGIZED], ret |-> TRUE]

\* Lines 205-245 on one crystal.
energize_crystal_fn(crystal, fault_cycle) ==
    IF crystal.status = CRYSTAL_FAULTY THEN [c |-> crystal, ret |-> FALSE]
    ELSE IF crystal.status = CRYSTAL_ENERGIZED \/ crystal.status = CRYSTAL_ACTIVE
    THEN [c |-> crystal, ret |-> TRUE]
    ELSE IF crystal.status = CRYSTAL_OFFLINE THEN [c |-> crystal, ret |-> FALSE]
    ELSE energize_loop([crystal EXCEPT !.status = CRYSTAL_ENERGIZING], 1, fault_cycle)

\* Line 264.  Mutant: a crystal that is merely NOMINAL may be aligned.
NotEnergizedLenient(status) ==
    status # CRYSTAL_NOMINAL /\ status # CRYSTAL_ENERGIZED
    /\ status # CRYSTAL_ALIGNED /\ status # CRYSTAL_ACTIVE
NotEnergized(status) ==
    status # CRYSTAL_ENERGIZED /\ status # CRYSTAL_ALIGNED /\ status # CRYSTAL_ACTIVE

\* Lines 279-300: the alignment loop; drift_step is the step at which
\* rand() % 25 == 0 at line 292, 0 when it never is.  The test
\* alignment_progress >= ALIGNMENT_STEPS * 0.75 is made in quarters.
RECURSIVE align_loop(_, _, _)
align_loop(crystal, step, drift_step) ==
    IF step < ALIGNMENT_STEPS
    THEN LET c1 == [crystal EXCEPT !.alignment_progress = @ + 1]
             c2 == IF 4 * c1.alignment_progress >= 3 * ALIGNMENT_STEPS
                   THEN [c1 EXCEPT !.alignment = ALIGN_FINE]
                   ELSE c1
         IN  IF step + 1 = drift_step
             THEN [c |-> [c2 EXCEPT !.status = CRYSTAL_FAULTY,
                                    !.fault_codes =
                                        SetFault(c2.fault_codes, FAULT_ALIGNMENT_DRIFT),
                                    !.alignment = ALIGN_NONE,
                                    !.alignment_progress = 0],
                   ret |-> FALSE]
             ELSE align_loop(c2, step + 1, drift_step)
    ELSE [c |-> [crystal EXCEPT !.alignment = ALIGN_LOCKED, !.status = CRYSTAL_ALIGNED],
          ret |-> TRUE]

\* Lines 260-305 on one crystal.
align_crystal_fn(crystal, drift_step) ==
    IF crystal.status = CRYSTAL_FAULTY THEN [c |-> crystal, ret |-> FALSE]
    ELSE IF NotEnergized(crystal.status) THEN [c |-> crystal, ret |-> FALSE]
    ELSE IF crystal.status = CRYSTAL_ALIGNED \/ crystal.status = CRYSTAL_ACTIVE
    THEN [c |-> crystal, ret |-> TRUE]
    ELSE align_loop([crystal EXCEPT !.status = CRYSTAL_ALIGNING,
                                    !.alignment_progress = 0,
                                    !.alignment = ALIGN_COARSE],
                    0, drift_step)

\* Lines 316-331 on one crystal.
check_array_readiness_fn(crystal) ==
    IF crystal.status = CRYSTAL_ALIGNED
    THEN [crystal EXCEPT !.status = CRYSTAL_ACTIVE]
    ELSE crystal

\* Ids the callers pass, the two invalid neighbours of the range included.
CrystalIds == 0 .. (NUM_CRYSTALS + 1)
\* Outcomes of rand() followed: no fault, a fault half way, a fault in the
\* last cycle or step.
FaultCycles == {0, (MAX_ENERGY_LEVEL \div ENERGY_CHARGE_RATE) \div 2,
                MAX_ENERGY_LEVEL \div ENERGY_CHARGE_RATE}
DriftSteps == {0, 1, ALIGNMENT_STEPS}

initialize_crystal_array ==
    /\ ~array_initialized
    /\ crystal_array' \in [1 .. NUM_CRYSTALS -> InitialCrystals]
    /\ array_initialized' = TRUE
    /\ UNCHANGED <<allocator_vars, race_vars, example_vars, holo_vars, sched_vars>>

diagnose_crystal(crystal_id, stabilized) ==
    /\ array_initialized
    /\ crystal_array' =
           IF ValidId(crystal_id)
           THEN [crystal_array EXCEPT
                    ![crystal_id] = diagnose_crystal_fn(@, stabilized).c]
           ELSE crystal_array
    /\ UNCHANGED array_initialized
    /\ UNCHANGED <<allocator_vars, race_vars, example_vars, holo_vars, sched_vars>>

energize_crystal(crystal_id, fault_cycle) ==
    /\ array_initialized
    /\ crystal_array' =
           IF ValidId(crystal_id)
           THEN [crystal_array EXCEPT
                    ![crystal_id] = energize_crystal_fn(@, fault_cycle).c]
           ELSE crystal_array
    /\ UNCHANGED array_initialized
    /\ UNCHANGED <<allocator_vars, race_vars, example_vars, holo_vars, sched_vars>>

align_crystal(crystal_id, drift_step) ==
    /\ array_initialized
    /\ crystal_array' =
           IF ValidId(crystal_id)
           THEN [crystal_array EXCEPT
                    ![crystal_id] = align_crystal_fn(@, drift_step).c]
           ELSE crystal_array
    /\ UNCHANGED array_initialized
    /\ UNCHANGED <<allocator_vars, race_vars, example_vars, holo_vars, sched_vars>>

check_array_readiness ==
    /\ array_initialized
    /\ crystal_array' =
           [i \in 1 .. NUM_CRYSTALS |-> check_array_readiness_fn(crystal_array[i])]
    /\ UNCHANGED array_initialized
    /\ UNCHANGED <<allocator_vars, race_vars, example_vars, holo_vars, sched_vars>>

KyberNext ==
    \/ initialize_crystal_array
    \/ \E crystal_id \in CrystalIds, stabilized \in BOOLEAN :
           diagnose_crystal(crystal_id, stabilized)
    \/ \E crystal_id \in CrystalIds, fault_cycle \in FaultCycles :
           energize_crystal(crystal_id, fault_cycle)
    \/ \E crystal_id \in CrystalIds, drift_step \in DriftSteps :
           align_crystal(crystal_id, drift_step)
    \/ check_array_readiness

SpecKyber == Init /\ [][KyberNext]_vars

\* ------------------------------------- the example build, call by call
\* my_allocator_init, my_malloc and my_free as in the source, with the
\* example's POOL_SIZE, sizeof(BlockHeader) and ALIGNMENT.
ExampleOps == 4
ExampleSizes == {10, 20, 16}

\* Line 45.
example_ALIGN(size) ==
    (((size + (Example.alignment - 1)) % SIZE_MOD) \div Example.alignment)
        * Example.alignment

\* Lines 59-74.
example_init(e) ==
    IF e.init # 0 THEN e
    ELSE [hdr |-> [e.hdr EXCEPT ![pool_start] =
                       [size |-> Example.POOL_SIZE, is_free |-> 1, next_free |-> NULL]],
          head |-> pool_start, init |-> 1]

\* Lines 92-95.
example_total_needed_size(size) ==
    LET aligned == example_ALIGN((size + Example.header) % SIZE_MOD)
    IN  IF aligned < Example.header + Example.alignment
        THEN Example.header + Example.alignment
        ELSE aligned

\* Line 103.  Mutant: the size is not compared.
example_fits_AnySize(h, needed) == h.is_free # 0
example_fits(h, needed) == h.is_free # 0 /\ h.size >= needed

\* Lines 102-145: the first entry of the free list that fits, the entry
\* before it and the number of entries passed over.
RECURSIVE example_first_fit(_, _, _, _, _)
example_first_fit(hdr, current, prev_free, needed, skipped) ==
    IF current = NULL
    THEN [found |-> FALSE, current |-> NULL, prev_free |-> prev_free,
          skipped |-> skipped]
    ELSE IF example_fits(hdr[current], needed)
    THEN [found |-> TRUE, current |-> current, prev_free |-> prev_free,
          skipped |-> skipped]
    ELSE example_first_fit(hdr, hdr[current].next_free, current, needed,
                           skipped + 1)

\* Lines 106-122.
example_split(e, current, prev_free, needed) ==
    LET new_free_block == current + needed
        h1 == [e.hdr EXCEPT ![new_free_block] =
                   [size |-> e.hdr[current].size - needed, is_free |-> 1,
                    next_free |-> e.hdr[current].next_free]]
        h2 == [h1 EXCEPT ![current] =
                   [size |-> needed, is_free |-> 0, next_free |-> NULL]]
    IN  IF prev_free # NULL
        THEN [e EXCEPT !.hdr = [h2 EXCEPT ![prev_free].next_free = new_free_block]]
        ELSE [e EXCEPT !.hdr = h2, !.head = new_free_block]

\* Lines 126-139.
example_consume(e, current, prev_free) ==
    LET link == e.hdr[current].next_free
        h1 == [e.hdr EXCEPT ![current].is_free = 0]
        h2 == IF prev_free # NULL THEN [h1 EXCEPT ![prev_free].next_free = link]
              ELSE h1
    IN  [hdr |-> [h2 EXCEPT ![current].next_free = NULL],
         head |-> IF prev_free # NULL THEN e.head ELSE link,
         init |-> e.init]

\* Lines 82-150: the allocator after the call, the handle returned, the
\* path taken and the entries passed over.
example_malloc_fn(e0, size) ==
    LET e == example_init(e0)
    IN  IF size = 0 THEN [e |-> e, ret |-> NULL, path |-> "zero", skipped |-> 0]
        ELSE
        LET needed == example_total_needed_size(size)
            f == example_first_fit(e.hdr, e.head, NULL, needed, 0)
        IN  IF ~f.found
            THEN [e |-> e, ret |-> NULL, path |-> "oom", skipped |-> f.skipped]
            ELSE IF e.hdr[f.current].size
                        >= needed + Example.header + Example.alignment
            THEN [e |-> example_split(e, f.current, f.prev_free, needed),
                  ret |-> f.current + Example.header, path |-> "split",
                  skipped |-> f.skipped]
            ELSE [e |-> example_consume(e, f.current, f.prev_free),
                  ret |-> f.current + Example.header, path |-> "whole",
                  skipped |-> f.skipped]

\* Lines 156-189.
example_free_fn(e, ptr) ==
    LET block_to_free == ptr - Example.header
    IN  IF ptr = NULL \/ e.init = 0 THEN e
        ELSE IF block_to_free < pool_start
                \/ block_to_free >= pool_start + Example.POOL_SIZE
        THEN e
        ELSE IF e.hdr[block_to_free].is_free # 0 THEN e
        ELSE [e EXCEPT !.hdr = [e.hdr EXCEPT ![block_to_free].is_free = 1,
                                             ![block_to_free].next_free = e.head],
                       !.head = block_to_free]

example_my_malloc(size) ==
    /\ Len(ex_trace) < ExampleOps
    /\ LET r == example_malloc_fn(example, size)
       IN  /\ example' = r.e
           /\ ex_trace' = Append(ex_trace, [op |-> "malloc", arg |-> size,
                                            ret |-> r.ret, path |-> r.path,
                                            skipped |-> r.skipped])
    /\ UNCHANGED <<allocator_vars, race_vars, holo_vars, kyber_vars, sched_vars>>

\* The handles my_malloc has returned so far.
ExampleHandles == {ex_trace[i].ret : i \in 1 .. Len(ex_trace)} \ {NULL}

example_my_free ==
    /\ Len(ex_trace) < ExampleOps
    /\ \E ptr \in ExampleHandles :
           /\ example' = example_free_fn(example, ptr)
           /\ ex_trace' = Append(ex_trace, [op |-> "free", arg |-> ptr, ret |-> NULL,
                                            path |-> "free", skipped |-> 0])
    /\ UNCHANGED <<allocator_vars, race_vars, holo_vars, kyber_vars, sched_vars>>

ExampleNext ==
    \/ \E size \in ExampleSizes : example_my_malloc(size)
    \/ example_my_free

SpecExample == Init /\ [][ExampleNext]_vars

\* ------------------------------------------- two callers with no lock
\* my_malloc and my_free run by two threads, one statement at a time: pc
\* names the line a caller will execute next.  The pool has been set up
\* before the threads start, each thread frees only handles it holds, and
\* RaceCalls calls are followed in all.
RaceCalls == 4
RaceSizes == {ALIGNMENT, 3 * ALIGNMENT}

\* The calls made so far, by all callers.
RECURSIVE CallsMade(_)
CallsMade(cs) ==
    IF cs = {} THEN 0
    ELSE LET c == CHOOSE x \in cs : TRUE
         IN  callers[c].calls + CallsMade(cs \ {c})

\* The headers the statement at k.pc dereferences.
Touches(k) ==
    CASE k.pc \in {"L103", "L143", "L106", "L113", "L114", "L115", "L128", "L136"}
             -> {k.current}
      [] k.pc = "L109" -> {k.current, new_free_block_of(k.current, k.total_needed_size)}
      [] k.pc = "L110" -> {k.new_free_block}
      [] k.pc = "L111" -> {k.current, k.new_free_block}
      [] k.pc = "L118" -> {k.prev_free} \ {NULL}
      [] k.pc = "L131" -> {k.current, k.prev_free} \ {NULL}
      [] k.pc \in {"L178", "L184", "L188"} -> {k.block_to_free}
      [] OTHER -> {}

\* Caller c stands at pc and can execute the statement there.
At(c, pc) ==
    /\ fault = "none"
    /\ callers[c].pc = pc
    /\ \A b \in Touches(callers[c]) : HeaderInArray(b)

\* The statement leaves the pool as mem, the list head as head and the
\* caller as k.
Step(c, mem, head, k) ==
    /\ memory_pool' = mem
    /\ free_list_head' = head
    /\ callers' = [callers EXCEPT ![c] = k]
    /\ UNCHANGED <<allocator_initialized, fault, issued, live, last, overlapped>>
    /\ UNCHANGED <<example_vars, holo_vars, kyber_vars, sched_vars>>

\* A call begins: it overlaps if another caller is inside a call.
Enter(c, k) ==
    /\ memory_pool' = memory_pool
    /\ free_list_head' = free_list_head
    /\ callers' = [callers EXCEPT ![c] = [k EXCEPT !.calls = @ + 1]]
    /\ overlapped' = (overlapped \/ \E d \in Callers \ {c} : callers[d].pc # "idle")
    /\ UNCHANGED <<allocator_initialized, fault, issued, live, last>>
    /\ UNCHANGED <<example_vars, holo_vars, kyber_vars, sched_vars>>

\* return ret (line 141 or 149): the caller holds what it was given.
Return(k, ret) ==
    [k EXCEPT !.pc = "idle", !.ret = ret,
              !.held = IF ret = NULL THEN @ ELSE @ \cup {ret},
              !.current = NULL, !.prev_free = NULL, !.new_free_block = NULL,
              !.block_to_free = NULL, !.total_needed_size = 0]

\* Lines 82-95: the call, with its size turned into total_needed_size.
malloc_call(c, size) ==
    /\ At(c, "idle")
    /\ allocator_initialized = 1
    /\ CallsMade(Callers) < RaceCalls
    /\ ~IsZeroRequest(size)
    /\ Enter(c, [callers[c] EXCEPT !.pc = "L98",
                                   !.total_needed_size = total_needed_size(size)])

\* Lines 98-99.
malloc_L98(c) ==
    /\ At(c, "L98")
    /\ Step(c, memory_pool, free_list_head,
            [callers[c] EXCEPT !.pc = "L102", !.current = free_list_head,
                               !.prev_free = NULL])

\* Line 102, and line 149 when the list has ended.
malloc_L102(c) ==
    /\ At(c, "L102")
    /\ Step(c, memory_pool, free_list_head,
            IF callers[c].current # NULL THEN [callers[c] EXCEPT !.pc = "L103"]
            ELSE Return(callers[c], NULL))

\* Line 103.
malloc_L103(c) ==
    /\ At(c, "L103")
    /\ LET k == callers[c]
       IN  Step(c, memory_pool, free_list_head,
                [k EXCEPT !.pc = IF Fits(memory_pool, k.current, k.total_needed_size)
                                 THEN "L106" ELSE "L143"])

\* Lines 143-144.
malloc_L143(c) ==
    /\ At(c, "L143")
    /\ LET k == callers[c]
       IN  Step(c, memory_pool, free_list_head,
                [k EXCEPT !.pc = "L102", !.prev_free = k.current,
                          !.current = next_free_of(memory_pool, k.current)])

\* Line 106.
malloc_L106(c) ==
    /\ At(c, "L106")
    /\ LET k == callers[c]
       IN  Step(c, memory_pool, free_list_head,
                [k EXCEPT !.pc = IF CanSplit(memory_pool, k.current, k.total_needed_size)
                                 THEN "L109" ELSE "L128"])

\* Lines 108-109.
malloc_L109(c) ==
    /\ At(c, "L109")
    /\ LET k == callers[c]
           new_free_block == new_free_block_of(k.current, k.total_needed_size)
       IN  Step(c, Wr(memory_pool, new_free_block + offsetof_size,
                      RemainderSize(memory_pool, k.current, k.total_needed_size)),
                free_list_head,
                [k EXCEPT !.pc = "L110", !.new_free_block = new_free_block])

\* Line 110.
malloc_L110(c) ==
    /\ At(c, "L110")
    /\ Step(c, Wr(memory_pool, callers[c].new_free_block + offsetof_is_free, 1),
            free_list_head, [callers[c] EXCEPT !.pc = "L111"])

\* Line 111.
malloc_L111(c) ==
    /\ At(c, "L111")
    /\ Step(c, Wr(memory_pool, callers[c].new_free_block + offsetof_next_free,
                  InheritedLink(memory_pool, callers[c].current)),
            free_list_head, [callers[c] EXCEPT !.pc = "L113"])

\* Line 113.
malloc_L113(c) ==
    /\ At(c, "L113")
    /\ Step(c, Wr(memory_pool, callers[c].current + offsetof_size,
                  callers[c].total_needed_size),
            free_list_head, [callers[c] EXCEPT !.pc = "L114"])

\* Line 114.
malloc_L114(c) ==
    /\ At(c, "L114")
    /\ Step(c, MarkAllocated(memory_pool, callers[c].current), free_list_head,
            [callers[c] EXCEPT !.pc = "L115"])

\* Line 115.
malloc_L115(c) ==
    /\ At(c, "L115")
    /\ Step(c, Wr(memory_pool, callers[c].current + offsetof_next_free, NULL),
            free_list_head, [callers[c] EXCEPT !.pc = "L118"])

\* Lines 118-122, and the return of line 141.
malloc_L118(c) ==
    /\ At(c, "L118")
    /\ LET k == callers[c]
           ret == k.current + sizeof_BlockHeader
       IN  IF k.prev_free # NULL
           THEN Step(c, Wr(memory_pool, k.prev_free + offsetof_next_free,
                           k.new_free_block),
                     free_list_head, Return(k, ret))
           ELSE Step(c, memory_pool, k.new_free_block, Return(k, ret))

\* Line 128.
malloc_L128(c) ==
    /\ At(c, "L128")
    /\ Step(c, MarkAllocated(memory_pool, callers[c].current), free_list_head,
            [callers[c] EXCEPT !.pc = "L131"])

\* Lines 131-135.
malloc_L131(c) ==
    /\ At(c, "L131")
    /\ LET k == callers[c]
           link == next_free_of(memory_pool, k.current)
       IN  IF k.prev_free # NULL
           THEN Step(c, Wr(memory_pool, k.prev_free + offsetof_next_free, link),
                     free_list_head, [k EXCEPT !.pc = "L136"])
           ELSE Step(c, memory_pool, link, [k EXCEPT !.pc = "L136"])

\* Line 136, and the return of line 141.
malloc_L136(c) ==
    /\ At(c, "L136")
    /\ LET k == callers[c]
       IN  Step(c, Wr(memory_pool, k.current + offsetof_next_free, NULL),
                free_list_head, Return(k, k.current + sizeof_BlockHeader))

\* Lines 156-174: the call, with a handle the caller holds, which passes
\* the tests of lines 157, 160 and 170.
free_call(c) ==
    /\ At(c, "idle")
    /\ allocator_initialized = 1
    /\ CallsMade(Callers) < RaceCalls
    /\ \E ptr \in callers[c].held :
           /\ ~OutsidePool(block_to_free_of(ptr))
           /\ Enter(c, [callers[c] EXCEPT !.pc = "L178", !.held = @ \ {ptr},
                                          !.block_to_free = block_to_free_of(ptr)])

\* Lines 178-181.
free_L178(c) ==
    /\ At(c, "L178")
    /\ LET k == callers[c]
       IN  Step(c, memory_pool, free_list_head,
                IF AlreadyFree(memory_pool, k.block_to_free) THEN Return(k, NULL)
                ELSE [k EXCEPT !.pc = "L184"])

\* Line 184.
free_L184(c) ==
    /\ At(c, "L184")
    /\ Step(c, Wr(memory_pool, callers[c].block_to_free + offsetof_is_free, 1),
            free_list_head, [callers[c] EXCEPT !.pc = "L188"])

\* Line 188.
free_L188(c) ==
    /\ At(c, "L188")
    /\ Step(c, Wr(memory_pool, callers[c].block_to_free + offsetof_next_free,
                  free_list_head),
            free_list_head, [callers[c] EXCEPT !.pc = "L189"])

\* Line 189, and the return.
free_L189(c) ==
    /\ At(c, "L189")
    /\ Step(c, memory_pool, callers[c].block_to_free, Return(callers[c], NULL))

\* The statement a caller stands at dereferences a header that is not in
\* the pool: undefined behaviour, after which nothing is followed.
race_fault(c) ==
    /\ fault = "none"
    /\ \E b \in Touches(callers[c]) : ~HeaderInArray(b)
    /\ fault' = "ub"
    /\ UNCHANGED <<memory_pool, free_list_head, allocator_initialized, issued, live,
                   last, race_vars>>
    /\ UNCHANGED <<example_vars, holo_vars, kyber_vars, sched_vars>>

\* main sets the pool up before it starts the threads.
race_setup ==
    /\ allocator_initialized = 0
    /\ my_allocator_init

RaceNext ==
    \/ race_setup
    \/ \E c \in Callers, size \in RaceSizes : malloc_call(c, size)
    \/ \E c \in Callers : malloc_L98(c)
    \/ \E c \in Callers : malloc_L102(c)
    \/ \E c \in Callers : malloc_L103(c)
    \/ \E c \in Callers : malloc_L143(c)
    \/ \E c \in Callers : malloc_L106(c)
    \/ \E c \in Callers : malloc_L109(c)
    \/ \E c \in Callers : malloc_L110(c)
    \/ \E c \in Callers : malloc_L111(c)
    \/ \E c \in Callers : malloc_L113(c)
    \/ \E c \in Callers : malloc_L114(c)
    \/ \E c \in Callers : malloc_L115(c)
    \/ \E c \in Callers : malloc_L118(c)
    \/ \E c \in Callers : malloc_L128(c)
    \/ \E c \in Callers : malloc_L131(c)
    \/ \E c \in Callers : malloc_L136(c)
    \/ \E c \in Callers : free_call(c)
    \/ \E c \in Callers : free_L178(c)
    \/ \E c \in Callers : free_L184(c)
    \/ \E c \in Callers : free_L188(c)
    \/ \E c \in Callers : free_L189(c)
    \/ \E c \in Callers : race_fault(c)

SpecRace == Init /\ [][RaceNext]_vars


\* ================================= process_scheduler_simulation.c
TIME_QUANTUM == 3
STATE_NEW == 0
STATE_READY == 1
STATE_RUNNING == 2
STATE_TERMINATED == 3

\* x + 1 in int, in two's complement: past INT_MAX the value wraps.
IntInc(x) == IF x = INT_MAX THEN -INT_MAX - 1 ELSE x + 1

\* The scheduler's data while run_scheduler works on it.  dropped tells
\* whether an enqueue found the queue full, and log lists the enqueues made:
\* the PCB, the queue after it, and the PCBs not TERMINATED at that moment.
Sched(procs, q, time, terminated) ==
    [procs |-> procs, q |-> q, time |-> time, terminated |-> terminated,
     overflowed |-> FALSE, dropped |-> FALSE, log |-> <<>>]

\* global_time++ (lines 176 and 207).  At INT_MAX the increment overflows a
\* signed int, which C leaves undefined: overflowed records it.
tick(s) ==
    [s EXCEPT !.time = IntInc(s.time), !.overflowed = @ \/ s.time = INT_MAX]

\* Lines 76-82.
is_queue_full(q) == q.count = MAX_QUEUE_SIZE

\* The PCBs in the queue, head first.
QueueOf(q) == [k \in 1 .. q.count |-> q.buffer[(q.front + k - 1) % MAX_QUEUE_SIZE]]

\* The PCBs that have not terminated.
NotTerminated(procs) == {i \in 1 .. Len(procs) : procs[i].state # STATE_TERMINATED}

\* Lines 84-94.  A PCB pointer is the index of the PCB in all_processes.
enqueue(s, pid) ==
    IF is_queue_full(s.q) THEN [s EXCEPT !.dropped = TRUE]
    ELSE LET rear == (s.q.rear + 1) % MAX_QUEUE_SIZE
             q == [buffer |-> [s.q.buffer EXCEPT ![rear] = pid],
                   front |-> s.q.front, rear |-> rear, count |-> s.q.count + 1]
             procs == [s.procs EXCEPT ![pid].state = STATE_READY]
         IN  [s EXCEPT !.q = q, !.procs = procs,
                       !.log = Append(@, [process |-> pid, queue |-> QueueOf(q),
                                          alive |-> NotTerminated(procs)])]

\* Lines 96-106: the queue after dequeue, and the PCB taken (0 for NULL).
dequeue(q) ==
    IF q.count = 0 THEN [q |-> q, process |-> 0]
    ELSE [q |-> [q EXCEPT !.front = (q.front + 1) % MAX_QUEUE_SIZE,
                          !.count = q.count - 1],
          process |-> q.buffer[q.front]]

\* The arrival tests: <= at lines 156, 169 and 179, == at line 213.
ArrivedByNow(proc, time) == proc.state = STATE_NEW /\ proc.arrival_time <= time
ArrivesNow(proc, time) == proc.state = STATE_NEW /\ proc.arrival_time = time

\* The loops of lines 155-159, 168-173 and 178-182 from index i on.  (The
\* data after one iteration is bound as a value, x, so that it is computed
\* once; the same is done in the loops below.)
RECURSIVE admit_arrived(_, _)
admit_arrived(s, i) ==
    IF i > Len(s.procs) THEN s
    ELSE CHOOSE r \in {admit_arrived(x, i + 1) :
                          x \in {IF ArrivedByNow(s.procs[i], s.time)
                                 THEN enqueue(s, i) ELSE s}} : TRUE

\* The loop of lines 212-218 from index i on.
RECURSIVE admit_arriving(_, _)
admit_arriving(s, i) ==
    IF i > Len(s.procs) THEN s
    ELSE CHOOSE r \in {admit_arriving(x, i + 1) :
                          x \in {IF ArrivesNow(s.procs[i], s.time)
                                 THEN enqueue(s, i) ELSE s}} : TRUE

\* Lines 201-202.  Mutant: the whole quantum is always used.
time_to_run_Full(remaining_time) == TIME_QUANTUM
time_to_run_of(remaining_time) ==
    IF remaining_time < TIME_QUANTUM THEN remaining_time ELSE TIME_QUANTUM

\* Lines 206-219: the slice, tick by tick.
RECURSIVE run_slice(_, _, _, _)
run_slice(s, current_process, t, time_to_run) ==
    IF t < time_to_run
    THEN CHOOSE r \in
             {run_slice(y, current_process, t + 1, time_to_run) :
                  y \in {admit_arriving(x, 1) :
                             x \in {[tick(s) EXCEPT
                                        !.procs[current_process].remaining_time
                                            = @ - 1]}}} : TRUE
    ELSE s

\* Line 222.
IsFinished(remaining_time) == remaining_time <= 0

\* Lines 222-232.
finish_slice(s, current_process) ==
    IF IsFinished(s.procs[current_process].remaining_time)
    THEN [s EXCEPT !.procs[current_process].state = STATE_TERMINATED,
                   !.terminated = s.terminated + 1]
    ELSE enqueue([s EXCEPT !.procs[current_process].state = STATE_READY],
                 current_process)

\* Lines 194-233: dequeue and run one slice.  The record tells what the
\* pass did, for the history variable.
dispatch(s) ==
    LET d == dequeue(s.q)
        current_process == d.process
    IN  IF current_process = 0
        THEN [s |-> s, kind |-> "idle", pid |-> 0, before |-> 0, ran |-> 0,
              start |-> s.time, waiting |-> <<>>, fresh |-> {}]
        ELSE
        LET s1 == [s EXCEPT !.q = d.q, !.procs[current_process].state = STATE_RUNNING]
            time_to_run == time_to_run_of(s1.procs[current_process].remaining_time)
        IN  CHOOSE r \in
                {[s |-> finish_slice(s2, current_process), kind |-> "slice",
                  pid |-> current_process,
                  before |-> s.procs[current_process].remaining_time,
                  ran |-> time_to_run, start |-> s.time, waiting |-> QueueOf(d.q),
                  fresh |-> {i \in 1 .. Len(s.procs) : s.procs[i].state = STATE_NEW}] :
                     s2 \in {run_slice(s1, current_process, 0, time_to_run)}} : TRUE

Idle(s) ==
    [s |-> s, kind |-> "idle", pid |-> 0, before |-> 0, ran |-> 0, start |-> s.time,
     waiting |-> <<>>, fresh |-> {}]

\* Lines 163-233: one pass of the while loop, entered with
\* processes_terminated < num_processes.
loop_pass(s) ==
    IF s.q.count # 0 THEN dispatch(s)
    ELSE
    CHOOSE r \in
        {LET new_arrivals == s1.q.count # 0
         IN  IF new_arrivals THEN dispatch(s1)
             ELSE CHOOSE r2 \in
                      {IF s2.q.count = 0 THEN Idle(s2) ELSE dispatch(s2) :
                           s2 \in {admit_arrived(tick(s1), 1)}} : TRUE :
             s1 \in {admit_arrived(s, 1)}} : TRUE

\* Burst and arrival times main may pass: a burst of nothing, less than a
\* quantum and more than one; arrival at once, inside the first slice, and
\* at the last moment an int can hold.
BurstTimes == {0, TIME_QUANTUM - 1, TIME_QUANTUM + 1}
ArrivalTimes == {0, TIME_QUANTUM - 1, INT_MAX}

CurSched == Sched(all_processes, ready_q, global_time, processes_terminated)

\* Lines 121-139.
create_process(burst_time, arrival_time_sim) ==
    /\ sched_pc = "main"
    /\ all_processes' =
           IF Len(all_processes) >= MAX_PROCESSES THEN all_processes
           ELSE Append(all_processes,
                       [state |-> STATE_NEW, burst_time |-> burst_time,
                        remaining_time |-> burst_time,
                        arrival_time |-> arrival_time_sim])
    /\ UNCHANGED <<global_time, ready_q, processes_terminated, sched_pc, slice>>
    /\ UNCHANGED <<allocator_vars, race_vars, example_vars, holo_vars, kyber_vars>>

\* Lines 145-159: run_scheduler is entered and fills the queue.
run_scheduler_begin ==
    /\ sched_pc = "main"
    /\ LET s == admit_arrived(Sched(all_processes, ready_q, global_time, 0), 1)
       IN  /\ all_processes' = s.procs
           /\ ready_q' = s.q
           /\ slice' = [slice EXCEPT !.dropped = s.dropped, !.log = s.log]
    /\ processes_terminated' = 0
    /\ sched_pc' = "loop"
    /\ UNCHANGED global_time
    /\ UNCHANGED <<allocator_vars, race_vars, example_vars, holo_vars, kyber_vars>>

\* One pass of the while loop of line 162.  A pass in which global_time++
\* overflows has undefined behaviour: either the value wraps and the pass
\* goes on, or the program is stopped there.
run_scheduler_pass ==
    /\ sched_pc = "loop"
    /\ processes_terminated < Len(all_processes)
    /\ \E r \in {loop_pass(s) : s \in {CurSched}} :
           \/ /\ all_processes' = r.s.procs
              /\ ready_q' = r.s.q
              /\ global_time' = r.s.time
              /\ processes_terminated' = r.s.terminated
              /\ slice' = [kind |-> r.kind, pid |-> r.pid, before |-> r.before,
                           ran |-> r.ran, start |-> r.start, waiting |-> r.waiting,
                           fresh |-> r.fresh, dropped |-> r.s.dropped,
                           log |-> r.s.log]
              /\ UNCHANGED sched_pc
           \/ /\ r.s.overflowed
              /\ sched_pc' = "aborted"
              /\ UNCHANGED <<all_processes, global_time, ready_q,
                             processes_terminated, slice>>
    /\ UNCHANGED <<allocator_vars, race_vars, example_vars, holo_vars, kyber_vars>>

\* The while test of line 162 fails: run_scheduler returns (lines 235-237).
run_scheduler_return ==
    /\ sched_pc = "loop"
    /\ ~(processes_terminated < Len(all_processes))
    /\ sched_pc' = "done"
    /\ UNCHANGED <<all_processes, global_time, ready_q, processes_terminated, slice>>
    /\ UNCHANGED <<allocator_vars, race_vars, example_vars, holo_vars, kyber_vars>>

SchedNext ==
    \/ \E burst_time \in BurstTimes, arrival_time_sim \in ArrivalTimes :
           create_process(burst_time, arrival_time_sim)
    \/ run_scheduler_begin
    \/ run_scheduler_pass
    \/ run_scheduler_return

SpecSched == Init /\ [][SchedNext]_vars

\* run_scheduler runs on one thread that nothing stops: a pass that can be
\* made is made.
SpecSchedFair ==
    /\ Init
    /\ [][SchedNext]_vars
    /\ WF_vars(run_scheduler_pass)
    /\ WF_vars(run_scheduler_return)

\* ============================================================= claims
\* The blocks of the pool, the free list, and the call just made.
Walk == PoolWalk(memory_pool, pool_start, 0, <<>>)
BlockSeq == Walk.blocks
BlockSet == {BlockSeq[i] : i \in 1 .. Len(BlockSeq)}
FreeChain == Chain(memory_pool, free_list_head, <<>>, Fuel)
FreeSeq == FreeChain.entries
FreeSet == {FreeSeq[i] : i \in 1 .. Len(FreeSeq)}

RECURSIVE SumSizes(_, _)
SumSizes(m, blocks) ==
    IF blocks = <<>> THEN 0
    ELSE size_of(m, Head(blocks)) + SumSizes(m, Tail(blocks))

\* The state my_malloc searches: the current one, initialized if it was not.
Searched == IF allocator_initialized = 0 THEN my_allocator_init_fn(Cur) ELSE Cur
SearchedSeq == Chain(Searched.mem, Searched.head, <<>>, Fuel).entries
SearchedBlocks == PoolWalk(Searched.mem, pool_start, 0, <<>>).blocks

\* C1: once initialized, walking the pool from its first byte by each
\* block's size meets no zero-size block, never overshoots and stops exactly
\* at the pool's end; the block sizes sum to POOL_SIZE.
C1_Coverage ==
    allocator_initialized = 1 =>
        /\ ~Walk.zero
        /\ Walk.stop = pool_end
        /\ Walk.total = POOL_SIZE
        /\ SumSizes(memory_pool, BlockSeq) = POOL_SIZE
        /\ \A i, j \in 1 .. Len(BlockSeq) : BlockSeq[i] = BlockSeq[j] => i = j

C1_Witness ==
    /\ Len(BlockSeq) >= 4
    /\ last.op = "free" /\ last.path = "pushed"
    /\ \E b \in BlockSet : is_free_of(memory_pool, b) = 0

\* C2: a block of the pool is reachable from free_list_head by next_free
\* if and only if its is_free flag is set.
C2_FreeListMembership ==
    allocator_initialized = 1 =>
        \A b \in BlockSet : (b \in FreeSet) <=> (is_free_of(memory_pool, b) # 0)

C2_Witness ==
    /\ Len(FreeSeq) >= 3
    /\ \E b \in BlockSet : is_free_of(memory_pool, b) = 0
    /\ last.op = "malloc" /\ last.path = "whole"

\* C3: the blocks of two distinct live handles never overlap, and my_malloc
\* never returns a handle that is live at the time of the call.
LiveRange(m, h) ==
    LET b == block_to_free_of(h)
    IN  {a \in pool_start .. (pool_end - 1) : a >= b /\ a < b + size_of(m, b)}

C3_NoDoubleAllocation ==
    /\ [](\A h1, h2 \in live :
            h1 # h2 => LiveRange(memory_pool, h1) \cap LiveRange(memory_pool, h2) = {})
    /\ [][(last'.op = "malloc" /\ last'.ret # NULL) => last'.ret \notin live]_vars

C3_Witness ==
    /\ Cardinality(live) >= 3
    /\ issued \ live # {}
    /\ last.op = "malloc" /\ last.ret \in issued

\* C4: the free list ends in NULL, holds no block twice and is no longer
\* than the number of blocks in the pool.
C4_ListAcyclic ==
    /\ FreeChain.ended
    /\ \A i, j \in 1 .. Len(FreeSeq) : FreeSeq[i] = FreeSeq[j] => i = j
    /\ Len(FreeSeq) <= Len(BlockSeq)

C4_Witness ==
    /\ Len(FreeSeq) >= 3
    /\ last.op = "free" /\ last.path = "already_free"

\* C5 as stated: my_malloc(0) returns NULL and changes neither the
\* initialized flag, nor the free-list head, nor any header, in any state.
C5_ZeroSizeNoChange ==
    [][(last'.op = "malloc" /\ last'.arg = 0) =>
            (last'.ret = NULL /\ UNCHANGED alloc_state)]_vars

\* C5 amended: my_malloc(0) returns NULL and its only effect is that of
\* my_allocator_init: nothing on an initialized allocator, the
\* initialization on an uninitialized one.
C5_ZeroSizeInitOnly ==
    [][(last'.op = "malloc" /\ last'.arg = 0) =>
            /\ last'.ret = NULL
            /\ State(memory_pool', free_list_head', allocator_initialized')
                   = my_allocator_init_fn(Cur)
            /\ (allocator_initialized = 1 => UNCHANGED alloc_state)]_vars

C5_Witness ==
    /\ last.op = "malloc" /\ last.arg = 0 /\ last.ret = NULL
    /\ live # {}
    /\ Len(FreeSeq) >= 2

\* C6: whenever my_malloc(size) returns a handle, the block behind it holds
\* at least size bytes after its header.
C6_AllocatedCapacity ==
    (last.op = "malloc" /\ last.ret # NULL) =>
        size_of(memory_pool, block_to_free_of(last.ret)) - sizeof_BlockHeader >= last.arg

\* C7: my_free with a handle outside [pool_start, pool_start + POOL_SIZE)
\* changes no allocator state.
C7_OutOfBoundsReject ==
    [][(last'.op = "free" /\ ~(last'.arg >= pool_start /\ last'.arg < pool_end)) =>
            UNCHANGED alloc_state]_vars

\* C8: my_free on a handle that was freed and not returned again since
\* changes no allocator state.
C8_DoubleFreeNoOp ==
    [][(last'.op = "free" /\ last'.arg \in (issued \ live)) =>
            UNCHANGED alloc_state]_vars

C8_Witness ==
    /\ last.op = "free" /\ last.path = "already_free"
    /\ last.arg \in issued
    /\ live # {}
    /\ Len(FreeSeq) >= 2
    /\ free_list_head # block_to_free_of(last.arg)

\* C9: the block a successful my_malloc hands out is the first entry of the
\* free list, in link order, whose size is at least the needed size.
C9_FirstFit ==
    [][(last'.op = "malloc" /\ last'.ret # NULL) =>
            LET needed == total_needed_size(last'.arg)
                chosen == block_to_free_of(last'.ret)
            IN  \E i \in 1 .. Len(SearchedSeq) :
                    /\ SearchedSeq[i] = chosen
                    /\ size_of(Searched.mem, chosen) >= needed
                    /\ \A j \in 1 .. (i - 1) :
                           size_of(Searched.mem, SearchedSeq[j]) < needed]_vars

\* A first fit reached past smaller entries, with a free block at a lower
\* address left alone.
C9_Witness ==
    /\ last.op = "malloc" /\ last.ret # NULL
    /\ last.skipped >= 2
    /\ \E b \in FreeSet : b < block_to_free_of(last.ret)

\* C10: on an initialized allocator my_malloc(n), n > 0, returns NULL if and
\* only if no free block of the pool has size >= the needed size.
C10_Completeness ==
    [][(last'.op = "malloc" /\ last'.arg > 0 /\ allocator_initialized = 1) =>
            LET needed == total_needed_size(last'.arg)
            IN  (last'.ret = NULL) <=>
                    ~ \E b \in BlockSet :
                          /\ is_free_of(memory_pool, b) # 0
                          /\ size_of(memory_pool, b) >= needed]_vars

\* An out-of-memory return with free blocks left, all of them too small.
C10_Witness ==
    /\ last.op = "malloc" /\ last.arg > 0 /\ last.ret = NULL
    /\ last.arg < POOL_SIZE
    /\ last.skipped >= 2
    /\ live # {}

\* ------------------------------------------------- claims C11 .. C20
\* seq with y put right after its entry x, and seq without its entry x.
InsertAfter(seq, x, y) ==
    LET i == CHOOSE k \in 1 .. Len(seq) : seq[k] = x
    IN  SubSeq(seq, 1, i) \o <<y>> \o SubSeq(seq, i + 1, Len(seq))
Without(seq, x) == SelectSeq(seq, LAMBDA e : e # x)
InSeq(seq, x) == \E k \in 1 .. Len(seq) : seq[k] = x

\* The block behind the handle the call just returned, its size before the
\* call, and the size the call needed.
ChosenBlock == last'.ret - sizeof_BlockHeader
ChosenSizeBefore == size_of(Searched.mem, ChosenBlock)
NeededNow == total_needed_size(last'.arg)

\* C11: on an initialized allocator, my_malloc(n), n > 0, with no free block
\* of size >= needed returns NULL and leaves every cell of the pool and
\* free_list_head as they were.
C11_OomNoTrace ==
    [][(/\ last'.op = "malloc" /\ last'.arg > 0
        /\ allocator_initialized = 1
        /\ ~ \E b \in BlockSet : /\ is_free_of(memory_pool, b) # 0
                                 /\ size_of(memory_pool, b) >= NeededNow)
       => (last'.ret = NULL /\ UNCHANGED alloc_state)]_vars

\* An out-of-memory return after the search passed three free blocks.
C11_Witness ==
    /\ last.op = "malloc" /\ last.arg > 0 /\ last.ret = NULL
    /\ last.skipped >= 3
    /\ Len(FreeSeq) >= 3

\* C12: when the block my_malloc selects has size S >= needed + header +
\* alignment, it is replaced by an allocated block of size needed at the old
\* address and a free block of size S - needed right after it; every other
\* block keeps its address and size.
C12_SplitCorrectness ==
    [][(/\ last'.op = "malloc" /\ last'.ret # NULL
        /\ ChosenSizeBefore >= NeededNow + sizeof_BlockHeader + ALIGNMENT)
       => /\ InSeq(SearchedBlocks, ChosenBlock)
          /\ BlockSeq' = InsertAfter(SearchedBlocks, ChosenBlock, ChosenBlock + NeededNow)
          /\ size_of(memory_pool', ChosenBlock) = NeededNow
          /\ is_free_of(memory_pool', ChosenBlock) = 0
          /\ size_of(memory_pool', ChosenBlock + NeededNow) = ChosenSizeBefore - NeededNow
          /\ is_free_of(memory_pool', ChosenBlock + NeededNow) # 0
          /\ size_of(memory_pool', ChosenBlock) + size_of(memory_pool', ChosenBlock + NeededNow)
                 = ChosenSizeBefore
          /\ \A k \in 1 .. Len(SearchedBlocks) :
                 SearchedBlocks[k] # ChosenBlock =>
                     size_of(memory_pool', SearchedBlocks[k])
                         = size_of(Searched.mem, SearchedBlocks[k])]_vars

\* A split at the threshold, S = needed + header + alignment, of a block
\* that is neither the first nor the last of the pool.
C12_Witness ==
    /\ last.op = "malloc" /\ last.path = "split"
    /\ LET b == last.ret - sizeof_BlockHeader
           tail == b + size_of(memory_pool, b)
       IN  /\ b # pool_start
           /\ size_of(memory_pool, tail) = sizeof_BlockHeader + ALIGNMENT
           /\ tail + size_of(memory_pool, tail) < pool_end

\* C13: when the block my_malloc selects has size S with needed <= S <
\* needed + header + alignment, it is handed out whole: its size stays S,
\* the blocks of the pool stay the same, and the link that pointed to it
\* (free_list_head or its predecessor's next_free) now holds its old
\* next_free.
C13_NoSplitConsume ==
    [][(/\ last'.op = "malloc" /\ last'.ret # NULL
        /\ ChosenSizeBefore >= NeededNow
        /\ ChosenSizeBefore < NeededNow + sizeof_BlockHeader + ALIGNMENT)
       => /\ InSeq(SearchedSeq, ChosenBlock)
          /\ BlockSeq' = SearchedBlocks
          /\ \A k \in 1 .. Len(SearchedBlocks) :
                 size_of(memory_pool', SearchedBlocks[k])
                     = size_of(Searched.mem, SearchedBlocks[k])
          /\ is_free_of(memory_pool', ChosenBlock) = 0
          /\ FreeSeq' = Without(SearchedSeq, ChosenBlock)
          /\ LET i == CHOOSE k \in 1 .. Len(SearchedSeq) : SearchedSeq[k] = ChosenBlock
             IN  IF i = 1
                 THEN free_list_head' = next_free_of(Searched.mem, ChosenBlock)
                 ELSE /\ free_list_head' = Searched.head
                      /\ next_free_of(memory_pool', SearchedSeq[i - 1])
                             = next_free_of(Searched.mem, ChosenBlock)]_vars

\* A block larger than needed handed out whole from the middle of the list.
C13_Witness ==
    /\ last.op = "malloc" /\ last.path = "whole"
    /\ last.skipped >= 1
    /\ size_of(memory_pool, last.ret - sizeof_BlockHeader) > total_needed_size(last.arg)
    /\ Len(FreeSeq) > last.skipped

\* The header my_free(ptr) addresses, taken from the call's argument.
FreedBlock == last'.arg - sizeof_BlockHeader
FreedHeaderCells ==
    {CellOf(FreedBlock + offsetof_size), CellOf(FreedBlock + offsetof_is_free),
     CellOf(FreedBlock + offsetof_next_free)}

\* C14: my_free on the handle of an allocated block sets the block's
\* is_free, stores the previous free_list_head in its next_free and makes
\* it the head; the entries that were on the list follow it in their old
\* order.
C14_LifoPush ==
    [][(last'.op = "free" /\ last'.arg \in live)
       => /\ is_free_of(memory_pool, FreedBlock) = 0
          /\ is_free_of(memory_pool', FreedBlock) # 0
          /\ next_free_of(memory_pool', FreedBlock) = free_list_head
          /\ free_list_head' = FreedBlock
          /\ FreeSeq' = <<FreedBlock>> \o FreeSeq]_vars

\* A block freed onto a list that already held two entries.
C14_Witness ==
    /\ last.op = "free" /\ last.path = "pushed"
    /\ Len(FreeSeq) >= 3
    /\ FreeSeq[1] = last.arg - sizeof_BlockHeader

\* C15: my_free changes no block's address or size and not the number of
\* blocks, also when the freed block lies next to free blocks; the only
\* cells it writes belong to the freed block's own header.
C15_NoCoalescing ==
    [][(last'.op = "free")
       => /\ BlockSeq' = BlockSeq
          /\ \A k \in 1 .. Len(BlockSeq) :
                 size_of(memory_pool', BlockSeq[k]) = size_of(memory_pool, BlockSeq[k])
          /\ \A c \in Cells :
                 memory_pool'[c] # memory_pool[c] => c \in FreedHeaderCells]_vars

\* A block was freed whose two physical neighbours are both free, and all
\* three are still separate blocks.
C15_Witness ==
    /\ last.op = "free" /\ last.path = "pushed"
    /\ \E k \in 2 .. Len(BlockSeq) - 1 :
           /\ BlockSeq[k] = last.arg - sizeof_BlockHeader
           /\ is_free_of(memory_pool, BlockSeq[k - 1]) # 0
           /\ is_free_of(memory_pool, BlockSeq[k]) # 0
           /\ is_free_of(memory_pool, BlockSeq[k + 1]) # 0

\* The call just made is a my_malloc that split the block it selected.
SplitsNow ==
    /\ last'.op = "malloc" /\ last'.ret # NULL
    /\ ChosenSizeBefore >= NeededNow + sizeof_BlockHeader + ALIGNMENT

\* C16: the number of blocks never decreases: a my_malloc that splits adds
\* one block, every other call leaves the number as it was (a first
\* my_malloc is counted from the pool its own initialization lays out).
C16_BlockCountMonotone ==
    [][(allocator_initialized = 1 \/ last'.op = "malloc")
       => /\ Len(BlockSeq') >= Len(SearchedBlocks)
          /\ Len(BlockSeq') = Len(SearchedBlocks) + (IF SplitsNow THEN 1 ELSE 0)]_vars

\* Four blocks after a split, with a block freed earlier still separate.
C16_Witness ==
    /\ last.op = "malloc" /\ last.path = "split"
    /\ Len(BlockSeq) >= 4
    /\ issued # live

\* C17: my_allocator_init on an initialized allocator changes no block, not
\* the free list and not the initialized flag.
C17_InitIdempotent ==
    [][(last'.op = "init" /\ allocator_initialized = 1)
       => UNCHANGED alloc_state]_vars

\* my_allocator_init was called while handles were out and the pool was
\* split into three blocks or more.
C17_Witness ==
    /\ last.op = "init" /\ allocator_initialized = 1
    /\ live # {}
    /\ Len(BlockSeq) >= 3

\* The pool my_allocator_init lays out: one free block of POOL_SIZE bytes at
\* offset 0, which is the head of the free list and has no successor.
FreshPool ==
    State([c \in Cells |-> IF c = CellOf(pool_start + offsetof_size) THEN POOL_SIZE
                           ELSE IF c = CellOf(pool_start + offsetof_is_free) THEN 1
                           ELSE IF c = CellOf(pool_start + offsetof_next_free) THEN NULL
                           ELSE 0],
          pool_start, 1)

\* C18: my_allocator_init on an uninitialized allocator leaves exactly the
\* fresh pool, and a my_malloc(n) that is the first call leaves the state
\* and returns the handle that my_malloc(n) gives on the fresh pool.
C18_TransparentAutoInit ==
    [][(allocator_initialized = 0)
       => /\ last'.op = "init" => Cur' = FreshPool
          /\ last'.op = "malloc" =>
                 /\ Cur' = my_malloc_fn(FreshPool, last'.arg).s
                 /\ last'.ret = my_malloc_fn(FreshPool, last'.arg).ret
                 /\ allocator_initialized' = 1
                 /\ (last'.arg > 0 /\ NeededNow <= POOL_SIZE)
                        => last'.ret = pool_start + sizeof_BlockHeader]_vars

\* A first call my_malloc(n), made on the uninitialized allocator, returned
\* a handle and split the pool.
C18_Witness ==
    /\ last.op = "malloc" /\ last.was_uninit = 1
    /\ last.ret = pool_start + sizeof_BlockHeader
    /\ allocator_initialized = 1
    /\ Len(BlockSeq) = 2

\* C19: every block of the initialized pool has size >= header + alignment;
\* in particular the free tail a split leaves is never smaller.
C19_MinimumBlockSize ==
    allocator_initialized = 1 =>
        \A k \in 1 .. Len(BlockSeq) :
            size_of(memory_pool, BlockSeq[k]) >= sizeof_BlockHeader + ALIGNMENT

\* A split left a free tail of exactly header + alignment bytes, and the
\* block handed out is of that minimum size too.
C19_Witness ==
    /\ last.op = "malloc" /\ last.path = "split"
    /\ LET b == last.ret - sizeof_BlockHeader
       IN  /\ size_of(memory_pool, b) = sizeof_BlockHeader + ALIGNMENT
           /\ size_of(memory_pool, b + size_of(memory_pool, b))
                  = sizeof_BlockHeader + ALIGNMENT
           /\ is_free_of(memory_pool, b + size_of(memory_pool, b)) # 0

\* C20: every block's offset from the start of the pool and every block's
\* size are multiples of ALIGNMENT, and no call has addressed a header at
\* an unaligned offset.
C20_Alignment ==
    /\ fault = "none"
    /\ allocator_initialized = 1 =>
           \A k \in 1 .. Len(BlockSeq) :
               /\ (BlockSeq[k] - pool_start) % ALIGNMENT = 0
               /\ size_of(memory_pool, BlockSeq[k]) % ALIGNMENT = 0

\* A request that is not a multiple of ALIGNMENT was served by a split, and
\* the pool holds three blocks or more.
C20_Witness ==
    /\ last.op = "malloc" /\ last.path = "split"
    /\ last.arg % ALIGNMENT # 0
    /\ (last.arg + sizeof_BlockHeader) % ALIGNMENT # 0
    /\ Len(BlockSeq) >= 3

\* ------------------------------------------------- claims C21 .. C30
\* C22 as stated: dump_memory_map, called in any state, leaves the
\* initialized flag, free_list_head and every header as they were.
C22_DumpReadOnly ==
    [][(last'.op = "dump") => UNCHANGED alloc_state]_vars

\* C22 as amended: dump_memory_map on an initialized allocator changes no
\* allocator state; on an uninitialized allocator its only effect is that
\* of my_allocator_init, which leaves the fresh pool.
C22_DumpInitOnly ==
    [][(last'.op = "dump")
       => /\ allocator_initialized = 1 => UNCHANGED alloc_state
          /\ allocator_initialized = 0 => Cur' = FreshPool
          /\ UNCHANGED <<issued, live, fault>>]_vars

\* dump_memory_map ran on a pool of three blocks or more with handles out
\* and two entries or more on the free list.
C22_Witness ==
    /\ last.op = "dump" /\ last.was_uninit = 0
    /\ Len(BlockSeq) >= 3 /\ Len(FreeSeq) >= 2
    /\ live # {}

\* The header cells of the block at b.
HeaderCells(b) ==
    {CellOf(b + offsetof_size), CellOf(b + offsetof_is_free),
     CellOf(b + offsetof_next_free)}
\* The position of the selected block on the free list the call searched.
ChosenIndex == CHOOSE k \in 1 .. Len(SearchedSeq) : SearchedSeq[k] = ChosenBlock

\* C23: a my_malloc that returns a handle writes only the selected block's
\* header, the header of the tail when it splits, and one incoming link:
\* free_list_head when the selected block was first on the list, else the
\* next_free of its predecessor; every other cell of the pool is unchanged.
C23_AllocateFrame ==
    [][(last'.op = "malloc" /\ last'.ret # NULL)
       => /\ InSeq(SearchedSeq, ChosenBlock)
          /\ LET pred == IF ChosenIndex = 1 THEN NULL ELSE SearchedSeq[ChosenIndex - 1]
                 allowed ==
                     HeaderCells(ChosenBlock)
                     \cup (IF SplitsNow THEN HeaderCells(ChosenBlock + NeededNow) ELSE {})
                     \cup (IF pred = NULL THEN {} ELSE {CellOf(pred + offsetof_next_free)})
             IN  /\ \A c \in Cells :
                        memory_pool'[c] # Searched.mem[c] => c \in allowed
                 /\ pred = NULL => free_list_head' # Searched.head
                 /\ pred # NULL =>
                        /\ free_list_head' = Searched.head
                        /\ next_free_of(memory_pool', pred) # ChosenBlock
                        /\ size_of(memory_pool', pred) = size_of(Searched.mem, pred)
                        /\ is_free_of(memory_pool', pred) = is_free_of(Searched.mem, pred)
                 /\ \A k \in 1 .. Len(SearchedSeq) :
                        (SearchedSeq[k] # ChosenBlock /\ SearchedSeq[k] # pred) =>
                            next_free_of(memory_pool', SearchedSeq[k])
                                = next_free_of(Searched.mem, SearchedSeq[k])]_vars

\* A block that had both a predecessor and a successor on the free list
\* was handed out: the predecessor now links to the successor.
C23_Witness ==
    /\ last.op = "malloc" /\ last.ret # NULL
    /\ last.skipped >= 1
    /\ Len(FreeSeq) >= last.skipped + 1
    /\ next_free_of(memory_pool, FreeSeq[last.skipped]) = FreeSeq[last.skipped + 1]
    /\ Len(BlockSeq) >= 3

\* C25: my_free(NULL), in any state, returns normally and changes no
\* allocator state.
C25_NullHandle ==
    [][(last'.op = "free" /\ last'.arg = NULL)
       => /\ UNCHANGED alloc_state
          /\ fault' = "none"
          /\ UNCHANGED <<issued, live>>]_vars

\* my_free(NULL) was called with handles out and free blocks on the list.
C25_Witness ==
    /\ last.op = "free" /\ last.arg = NULL
    /\ allocator_initialized = 1
    /\ live # {} /\ Len(FreeSeq) >= 2

\* C30: when my_malloc splits a free block B, the tail gets B's old
\* next_free, the link that pointed to B (free_list_head or the
\* predecessor's next_free) points to the tail, and the free list is the
\* old list with the tail in B's place.
C30_SplitKeepsPosition ==
    [][SplitsNow
       => /\ InSeq(SearchedSeq, ChosenBlock)
          /\ LET tail == ChosenBlock + NeededNow
             IN  /\ next_free_of(memory_pool', tail) = next_free_of(Searched.mem, ChosenBlock)
                 /\ IF ChosenIndex = 1
                    THEN free_list_head' = tail
                    ELSE /\ free_list_head' = Searched.head
                         /\ next_free_of(memory_pool', SearchedSeq[ChosenIndex - 1]) = tail
                 /\ Len(FreeSeq') = Len(SearchedSeq)
                 /\ \A k \in 1 .. Len(SearchedSeq) :
                        FreeSeq'[k] = IF k = ChosenIndex THEN tail ELSE SearchedSeq[k]]_vars

\* A split of an entry that had a predecessor on the free list: the tail
\* stands behind that predecessor.
C30_Witness ==
    /\ last.op = "malloc" /\ last.path = "split"
    /\ last.skipped >= 1
    /\ Len(FreeSeq) >= last.skipped + 1
    /\ FreeSeq[last.skipped + 1]
           = last.ret - sizeof_BlockHeader + total_needed_size(last.arg)
    /\ free_list_head # FreeSeq[last.skipped + 1]

\* C29: xor_cipher leaves the length of the buffer unchanged and changes
\* every byte of data[0 .. len - 1] and no other; applied twice with the
\* same len it restores the bytes, whatever they are.
C29_XorRoundTrip ==
    /\ Len(buffer) = Len(received)
    /\ \A i \in 1 .. Len(buffer) : buffer[i] \in Bytes
    /\ Len(ciphered) >= 1 =>
           \A i \in 1 .. Len(buffer) :
               (Len(ciphered) = 1 /\ i <= ciphered[1]) => buffer[i] # received[i]
    /\ Len(ciphered) = 1 =>
           \A i \in 1 .. Len(buffer) : i > ciphered[1] => buffer[i] = received[i]
    /\ (Len(ciphered) = 2 /\ ciphered[1] = ciphered[2]) => buffer = received

\* A message of three bytes holding a zero byte, the key and an all-ones
\* byte went through xor_cipher twice at its full length.
C29_Witness ==
    /\ Len(received) = 3
    /\ ciphered = <<3, 3>>
    /\ \E i \in 1 .. 3 : received[i] = 0
    /\ \E i \in 1 .. 3 : received[i] = XOR_KEY
    /\ \E i \in 1 .. 3 : received[i] = 2 ^ CHAR_BIT - 1

\* C28: after any sequence of diagnose_crystal, energize_crystal,
\* align_crystal and check_array_readiness calls, a crystal that is ALIGNED
\* or ACTIVE has current_energy_level = MAX_ENERGY_LEVEL, alignment =
\* ALIGN_LOCKED, alignment_progress = ALIGNMENT_STEPS and no fault code; and
\* a call that leaves a crystal ALIGNED found it ENERGIZED.
C28_CrystalReadiness ==
    /\ [](\A i \in 1 .. NUM_CRYSTALS :
              crystal_array[i].status \in {CRYSTAL_ALIGNED, CRYSTAL_ACTIVE} =>
                  /\ crystal_array[i].current_energy_level = MAX_ENERGY_LEVEL
                  /\ crystal_array[i].alignment = ALIGN_LOCKED
                  /\ crystal_array[i].alignment_progress = ALIGNMENT_STEPS
                  /\ crystal_array[i].fault_codes = FAULT_NONE)
    /\ [][\A i \in 1 .. NUM_CRYSTALS :
              (crystal_array'[i].status = CRYSTAL_ALIGNED
               /\ crystal_array[i].status # CRYSTAL_ALIGNED) =>
                  crystal_array[i].status = CRYSTAL_ENERGIZED]_vars

\* One crystal is ACTIVE, and another, which was energized to the full and
\* then drifted during alignment, is FAULTY.
C28_Witness ==
    /\ array_initialized
    /\ \E i, j \in 1 .. NUM_CRYSTALS :
           /\ crystal_array[i].status = CRYSTAL_ACTIVE
           /\ crystal_array[j].status = CRYSTAL_FAULTY
           /\ crystal_array[j].current_energy_level = MAX_ENERGY_LEVEL
           /\ HasFault(crystal_array[j].fault_codes, FAULT_ALIGNMENT_DRIFT)

\* Every PCB is STATE_TERMINATED with remaining_time 0.
AllTerminated ==
    \A i \in 1 .. Len(all_processes) :
        /\ all_processes[i].state = STATE_TERMINATED
        /\ all_processes[i].remaining_time = 0

\* C26: for any processes main creates (at most MAX_PROCESSES, burst and
\* arrival times >= 0), run_scheduler, once entered, returns, and when it
\* has returned every process is STATE_TERMINATED with remaining_time 0.
C26_SchedulerCompletion ==
    /\ [](sched_pc = "loop" => <>(sched_pc = "done"))
    /\ [](sched_pc = "done" => AllTerminated)

\* The time k ticks after time.
RECURSIVE TimeAfter(_, _)
TimeAfter(time, k) == IF k = 0 THEN time ELSE IntInc(TimeAfter(time, k - 1))

\* The PCBs of all_processes among pids, in index order, whose arrival_time
\* is time.
RECURSIVE ArrivingAt(_, _, _)
ArrivingAt(pids, time, i) ==
    IF i > Len(all_processes) THEN <<>>
    ELSE (IF i \in pids /\ all_processes[i].arrival_time = time THEN <<i>> ELSE <<>>)
         \o ArrivingAt(pids, time, i + 1)

\* The PCBs that arrive during ticks 1 .. k of a slice that started at
\* start, tick by tick.
RECURSIVE ArrivingDuring(_, _, _)
ArrivingDuring(pids, start, k) ==
    IF k = 0 THEN <<>>
    ELSE ArrivingDuring(pids, start, k - 1) \o ArrivingAt(pids, TimeAfter(start, k), 1)

\* C27: a dispatched process runs for min(remaining_time, TIME_QUANTUM)
\* ticks; it is then TERMINATED if its remaining_time is 0, else READY at
\* the tail of the queue behind the processes that waited and those that
\* arrived during its slice; and the process dispatched is the head of the
\* queue.
C27_RoundRobinQuantum ==
    [][(slice' # slice /\ slice'.kind = "slice")
       => LET p == slice'.pid
              after == all_processes'[p].remaining_time
              arrivals == ArrivingDuring(slice'.fresh, slice'.start, slice'.ran)
          IN  /\ slice'.ran = IF slice'.before < TIME_QUANTUM
                              THEN slice'.before ELSE TIME_QUANTUM
              /\ after = slice'.before - slice'.ran
              /\ global_time' = TimeAfter(slice'.start, slice'.ran)
              /\ ready_q.count # 0 =>
                     /\ p = QueueOf(ready_q)[1]
                     /\ slice'.waiting = Tail(QueueOf(ready_q))
                     /\ slice'.before = all_processes[p].remaining_time
                     /\ slice'.start = global_time
              /\ after = 0 =>
                     /\ all_processes'[p].state = STATE_TERMINATED
                     /\ QueueOf(ready_q') = slice'.waiting \o arrivals
              /\ after # 0 =>
                     /\ all_processes'[p].state = STATE_READY
                     /\ QueueOf(ready_q') = slice'.waiting \o arrivals \o <<p>>
              /\ \A i \in 1 .. Len(all_processes) :
                     i # p => all_processes'[i].remaining_time
                                  = all_processes[i].remaining_time]_vars

\* A process was preempted and stands at the tail of the queue behind a
\* process that waited and a process that arrived during its slice.
C27_Witness ==
    /\ slice.kind = "slice"
    /\ slice.ran = TIME_QUANTUM
    /\ ready_q.count = 3
    /\ QueueOf(ready_q)[3] = slice.pid
    /\ Len(slice.waiting) = 1
    /\ QueueOf(ready_q)[2] \in slice.fresh

\* No caller is inside a call.
Quiescent == \A c \in Callers : callers[c].pc = "idle"

\* What the allocator keeps between calls: the blocks tile the pool, the
\* free list holds exactly the free blocks, once each, and ends in NULL,
\* and every handle a caller holds is an allocated block no other caller
\* holds.
BetweenCalls ==
    /\ fault = "none"
    /\ C1_Coverage
    /\ C2_FreeListMembership
    /\ C4_ListAcyclic
    /\ \A c \in Callers : \A h \in callers[c].held :
           /\ block_to_free_of(h) \in BlockSet
           /\ is_free_of(memory_pool, block_to_free_of(h)) = 0
           /\ \A d \in Callers \ {c} : h \notin callers[d].held

\* C24: with no lock, statements of two callers' my_malloc and my_free can
\* interleave so that an allocator invariant is broken between calls, for
\* one that both callers are given the same block; as long as no two calls
\* have overlapped, the invariants hold between calls.
C24_UnsynchronisedRace == (Quiescent /\ ~overlapped) => BetweenCalls

\* Both callers have returned from my_malloc with the same handle, which
\* both hold.
C24_Witness ==
    /\ Quiescent
    /\ overlapped
    /\ fault = "none"
    /\ callers[1].ret # NULL
    /\ callers[1].ret = callers[2].ret
    /\ callers[1].ret \in callers[1].held \cap callers[2].held

\* After overlapping calls a free block is in the pool but not on the free
\* list.
C24_LostBlock ==
    /\ Quiescent
    /\ overlapped
    /\ fault = "none"
    /\ C1_Coverage
    /\ \E b \in BlockSet :
           /\ HeaderInArray(b)
           /\ is_free_of(memory_pool, b) # 0
           /\ b \notin FreeSet

\* The blocks of the example pool in address order, each with its size and
\* flag, as dump_memory_map walks them.
RECURSIVE ExampleLayout(_, _)
ExampleLayout(hdr, block) ==
    IF block >= pool_start + Example.POOL_SIZE \/ hdr[block].size = 0 THEN <<>>
    ELSE <<[size |-> hdr[block].size, is_free |-> hdr[block].is_free]>>
         \o ExampleLayout(hdr, block + hdr[block].size)

\* The free list of the example pool, head first.
RECURSIVE ExampleFreeList(_, _)
ExampleFreeList(hdr, block) ==
    IF block = NULL THEN <<>>
    ELSE <<block>> \o ExampleFreeList(hdr, hdr[block].next_free)

\* The four calls of the scenario have been made, in order.
ScenarioRun ==
    /\ Len(ex_trace) = 4
    /\ ex_trace[1].op = "malloc" /\ ex_trace[1].arg = 10
    /\ ex_trace[2].op = "malloc" /\ ex_trace[2].arg = 20
    /\ ex_trace[3].op = "free" /\ ex_trace[3].arg = ex_trace[1].ret
    /\ ex_trace[4].op = "malloc" /\ ex_trace[4].arg = 16

\* C21: with POOL_SIZE 64, header 4 and alignment 4, after allocate(10),
\* allocate(20), deallocate(first handle), allocate(16) the pool holds
\* three blocks, 16 FREE, 24 ALLOCATED, 24 ALLOCATED; the last allocate
\* passed over the 16-byte head of the free list and took the 24-byte
\* block whole, and the free list holds only the 16-byte block.
C21_EndToEndScenario ==
    ScenarioRun =>
        /\ ExampleLayout(example.hdr, pool_start)
               = <<[size |-> 16, is_free |-> 1], [size |-> 24, is_free |-> 0],
                   [size |-> 24, is_free |-> 0]>>
        /\ ExampleFreeList(example.hdr, example.head) = <<pool_start>>
        /\ ex_trace[1].ret = pool_start + Example.header
        /\ ex_trace[2].ret = pool_start + 16 + Example.header
        /\ ex_trace[4].ret = pool_start + 16 + 24 + Example.header
        /\ ex_trace[4].skipped = 1
        /\ ex_trace[4].path = "whole"

C21_Witness ==
    /\ ScenarioRun
    /\ ex_trace[1].path = "split"
    /\ ex_trace[2].path = "split"
    /\ ex_trace[4].ret # NULL

\* C31: a selected block of size exactly needed + header + alignment is
\* split, and the free block behind the allocated one has exactly header +
\* alignment bytes; a selected block one alignment unit smaller is handed
\* out whole, with its size unchanged.
C31_SplitThreshold ==
    [][(last'.op = "malloc" /\ last'.ret # NULL)
       => /\ ChosenSizeBefore = NeededNow + sizeof_BlockHeader + ALIGNMENT
                 => /\ last'.path = "split"
                    /\ size_of(memory_pool', ChosenBlock) = NeededNow
                    /\ InSeq(BlockSeq', ChosenBlock + NeededNow)
                    /\ is_free_of(memory_pool', ChosenBlock + NeededNow) # 0
                    /\ size_of(memory_pool', ChosenBlock + NeededNow)
                           = sizeof_BlockHeader + ALIGNMENT
          /\ ChosenSizeBefore = NeededNow + sizeof_BlockHeader
                 => /\ last'.path = "whole"
                    /\ size_of(memory_pool', ChosenBlock) = ChosenSizeBefore
                    /\ BlockSeq' = SearchedBlocks]_vars

\* A block one alignment unit below the threshold has been handed out
\* whole, in a pool that also holds the free tail of a split made exactly
\* at the threshold.
C31_Witness ==
    /\ last.op = "malloc" /\ last.path = "whole"
    /\ size_of(memory_pool, last.ret - sizeof_BlockHeader)
           = total_needed_size(last.arg) + sizeof_BlockHeader
    /\ \E i \in 1 .. (Len(BlockSeq) - 1) :
           /\ is_free_of(memory_pool, BlockSeq[i]) = 0
           /\ is_free_of(memory_pool, BlockSeq[i + 1]) # 0
           /\ size_of(memory_pool, BlockSeq[i + 1]) = sizeof_BlockHeader + ALIGNMENT

\* C32: my_free(h), h not NULL, with h - sizeof(BlockHeader) outside
\* [pool_start, pool_start + POOL_SIZE) changes no allocator state and
\* dereferences nothing.
C32_DerivedAddressBounds ==
    [][(/\ last'.op = "free" /\ last'.arg # NULL
        /\ ~(/\ last'.arg - sizeof_BlockHeader >= pool_start
              /\ last'.arg - sizeof_BlockHeader < pool_end))
       => (UNCHANGED alloc_state /\ fault' = "none")]_vars

\* my_free has rejected a pointer into the pool's first bytes, whose
\* derived block address lies below the pool, while handles were live.
C32_Witness ==
    /\ last.op = "free" /\ last.path = "oob"
    /\ last.arg >= pool_start /\ last.arg < pool_end
    /\ block_to_free_of(last.arg) < pool_start
    /\ allocator_initialized = 1
    /\ live # {}

\* C33: right after a my_free(h) that freed a block of size S, my_malloc(n)
\* with n > 0 and needed(n) <= S returns h again.
C33_LifoReuse ==
    [][(/\ last.op = "free" /\ last.path = "pushed"
        /\ last'.op = "malloc" /\ last'.arg > 0
        /\ NeededNow <= size_of(memory_pool, last.arg - sizeof_BlockHeader))
       => last'.ret = last.arg]_vars

\* my_malloc has returned the handle freed by the call before it, although
\* the free list held other entries that would have fitted.
C33_Witness ==
    /\ last.op = "malloc"
    /\ last.after_push # NULL
    /\ last.ret = last.after_push
    /\ last.skipped = 0
    /\ \E b \in FreeSet :
           size_of(memory_pool, b) >= total_needed_size(last.arg)

\* The size of the largest block the pool walk of m meets.
RECURSIVE LargestOf(_, _)
LargestOf(m, blocks) ==
    IF blocks = <<>> THEN 0
    ELSE LET rest == LargestOf(m, Tail(blocks))
         IN  IF size_of(m, Head(blocks)) > rest THEN size_of(m, Head(blocks)) ELSE rest
LargestBlock(m) == LargestOf(m, PoolWalk(m, pool_start, 0, <<>>).blocks)

\* C34: once the allocator is initialized no call makes the largest block
\* of the pool larger; so once the pool holds more than one block a
\* my_malloc that needs POOL_SIZE bytes returns NULL, also when every
\* handle has been freed.
C34_FragmentationPermanent ==
    /\ [][allocator_initialized = 1
          => LargestBlock(memory_pool') <= LargestBlock(memory_pool)]_vars
    /\ [][(/\ last'.op = "malloc" /\ NeededNow = POOL_SIZE
           /\ allocator_initialized = 1 /\ Len(BlockSeq) >= 2)
          => (last'.ret = NULL /\ UNCHANGED alloc_state)]_vars

\* A request for the whole pool has failed although every handle ever
\* returned has been freed: the pool is in three or more free blocks.
C34_Witness ==
    /\ last.op = "malloc" /\ last.ret = NULL
    /\ total_needed_size(last.arg) = POOL_SIZE
    /\ issued # {} /\ live = {}
    /\ Len(BlockSeq) >= 3
    /\ Len(FreeSeq) = Len(BlockSeq)
    /\ LargestBlock(memory_pool) < POOL_SIZE

\* C35: once the allocator is initialized every block start stays a block
\* start, so every handle my_malloc has ever returned points just past the
\* header of a block of the current pool walk, whether the block is
\* allocated or free now.
C35_BlockStartsPersist ==
    [][\A before \in {PoolWalk(memory_pool, pool_start, 0, <<>>).blocks} :
       \A after \in {PoolWalk(memory_pool', pool_start, 0, <<>>).blocks} :
           /\ allocator_initialized = 1 =>
                  \A i \in 1 .. Len(before) : InSeq(after, before[i])
           /\ \A h \in issued' : InSeq(after, h - sizeof_BlockHeader)]_vars

\* my_free has been called on a handle that was freed before, in a pool
\* split into four blocks of which some are allocated: the handle still
\* names a block of the pool.
C35_Witness ==
    /\ last.op = "free" /\ last.path = "already_free"
    /\ last.arg \in issued \ live
    /\ last.arg - sizeof_BlockHeader \in BlockSet
    /\ Len(BlockSeq) >= 4
    /\ live # {}

\* What dump_memory_map would find if it were called now: it initializes
\* the allocator if need be, walks the pool, then walks the free list.
DumpReport ==
    LET s == dump_memory_map_fn(Cur)
    IN  [pool |-> PoolWalk(s.mem, pool_start, 0, <<>>),
         list |-> FreeListWalk(s.mem, s.head, <<>>, FreeListLimit)]

\* C36: in every state reached by my_allocator_init, my_malloc and my_free
\* of handles my_malloc returned, dump_memory_map has nothing to report: its
\* pool walk maps exactly POOL_SIZE bytes and meets no zero-size block, and
\* its free-list walk ends at NULL, meets no entry outside the pool and none
\* marked allocated, and counts no more than
\* POOL_SIZE / (sizeof(BlockHeader) + ALIGNMENT) + 5 entries.
C36_DumpFindsNothing ==
    \A d \in {DumpReport} :
        /\ d.pool.total = POOL_SIZE
        /\ ~d.pool.zero
        /\ d.list.end = "null"
        /\ Len(d.list.entries) <= FreeListLimit

\* dump_memory_map has just run on a pool of at least three blocks of which
\* one is allocated and two are on the free list.
C36_Witness ==
    /\ last.op = "dump"
    /\ Len(BlockSeq) >= 3
    /\ live # {}
    /\ Len(DumpReport.list.entries) >= 2
    /\ DumpReport.list.end = "null"
    /\ DumpReport.pool.total = POOL_SIZE

\* C37: my_free called with a non-null pointer while the allocator is
\* uninitialized returns at line 163: the pool, the free-list head and the
\* initialized flag are as before (the allocator stays uninitialized), and
\* nothing was read or written out of bounds.
C37_FreeBeforeInit ==
    [][(last'.op = "free" /\ last'.arg # NULL /\ allocator_initialized = 0)
           => /\ UNCHANGED alloc_state
              /\ allocator_initialized' = 0
              /\ fault' = "none"
              /\ UNCHANGED <<issued, live>>]_vars

\* my_free has returned on the uninitialized allocator from a call with a
\* pointer whose derived block address would have passed the bounds check.
C37_Witness ==
    /\ last.op = "free" /\ last.path = "uninit"
    /\ last.arg \in ForeignPtrs
    /\ ~OutsidePool(block_to_free_of(last.arg))
    /\ allocator_initialized = 0
    /\ free_list_head = NULL

\* A sequence in which no element occurs twice.
NoRepeats(seq) == \A i, j \in 1 .. Len(seq) : seq[i] = seq[j] => i = j

\* C38: with at most MAX_PROCESSES processes created, during and after
\* run_scheduler no process is in the ready queue twice, the queue never
\* holds more entries than there are processes that have not terminated,
\* and no enqueue finds the queue full (lines 85-87), at the end of every
\* pass of the scheduler's loop and after every single enqueue inside it.
C38_ReadyQueueNeverOverflows ==
    /\ Len(all_processes) <= MAX_PROCESSES
    /\ NoRepeats(QueueOf(ready_q))
    /\ ready_q.count <= Cardinality(NotTerminated(all_processes))
    /\ \A k \in 1 .. ready_q.count : QueueOf(ready_q)[k] \in NotTerminated(all_processes)
    /\ ~slice.dropped
    /\ \A n \in 1 .. Len(slice.log) :
           /\ NoRepeats(slice.log[n].queue)
           /\ Len(slice.log[n].queue) <= Cardinality(slice.log[n].alive)
           /\ Len(slice.log[n].queue) <= MAX_QUEUE_SIZE

\* A process was preempted and went back into a queue that then holds every
\* PCB there can be: the queue is filled to its last slot, its rear index
\* has wrapped around, and nothing was dropped.
C38_Witness ==
    /\ sched_pc = "loop"
    /\ slice.kind = "slice"
    /\ Len(all_processes) = MAX_PROCESSES
    /\ ready_q.count = MAX_QUEUE_SIZE
    /\ ready_q.rear < ready_q.front
    /\ all_processes[slice.pid].state = STATE_READY
    /\ QueueOf(ready_q)[ready_q.count] = slice.pid
    /\ Len(slice.log) >= 1
    /\ ~slice.dropped

\* C39: whatever message of 1 to BUFFER_SIZE - 1 bytes the server receives,
\* the text sprintf writes for "ACK: Received '<message>'", its terminating
\* zero byte included, is no longer than the 50 bytes of ack_message.
C39_AckFitsBuffer == Len(ack_text) <= ACK_MESSAGE_SIZE

====
